---- MODULE Spec2Model ----
(***************************************************************************)
(* The React Native transport of the Spacedrive mobile client              *)
(* (ReactNativeTransport): request batching over the single bridge call    *)
(* SDMobileCore.sendMessage, per-request and per-batch timeouts, and the   *)
(* retry loop of request().                                                *)
(*                                                                         *)
(* JavaScript runs every callback to completion, so each timer callback,   *)
(* each bridge completion and each call of request() is one atomic action. *)
(* A promise continuation that only updates the awaiting request() loop is *)
(* folded into the action that settles the promise.                        *)
(***************************************************************************)
EXTENDS Integers, Sequences, FiniteSets, TLC

VARIABLES
    requestCounter,   \* module-level counter of request identifiers
    pendingRequests,  \* keys of the Map<string, PendingRequest>
    timers,           \* identifiers whose per-request setTimeout is armed
    batch,            \* JsonRpcRequest[] accumulated since the last snapshot
    batchQueued,      \* the batchQueued flag
    flushPending,     \* the setTimeout(..., 0) flush callback is registered
    flights,          \* flush handlers awaiting Promise.race([sendMessage, timeoutPromise])
    lateBridgeCalls,  \* sendMessage calls still outstanding after their race was lost
    lateBatchTimers,  \* batch timers still armed after their race was decided
    promises,         \* per identifier: the promise returned by requestInternal
    calls,            \* per caller: one call of request() and its retry loop
    wire,             \* history per identifier: enqueue turn, flush, physical call, position
    sendCount,        \* history: number of SDMobileCore.sendMessage calls so far
    turnNo,           \* history: number of scheduler turns in which a request was enqueued
    turnOpen,         \* history: the turn of the last enqueue is still running
    healthCheckInterval,  \* the setInterval of startHealthCheck is armed
    currentHealthStatus,  \* "unknown", "healthy" or "unhealthy"
    healthListeners,      \* the Set of listeners registered by onHealthChange, in insertion order
    intervalTimers,       \* number of setInterval timers of startHealthCheck that are armed
    lastHealth,           \* history: the last updateHealthStatus call and the listeners it called
    destroyed,            \* history: destroy() has been called
    subscriptions,        \* SubscriptionManager: Map<key, SubscriptionEntry>, by reference
    pendingSubscriptions, \* SubscriptionManager: Map<key, Promise<SubscriptionEntry>>
    isDestroying,         \* SubscriptionManager: the isDestroying flag
    entries,              \* per createSubscription call: its native listener and its entry object
    microtasks,           \* continuations of settled awaits, in the order they will run
    teardowns,            \* the deferred teardown callbacks registered with setTimeout(..., 0)
    subscribers,          \* per caller: one call of subscribe() and its cleanup closure
    lastEvent             \* history: the last event of the core and who was called with it

vars == <<requestCounter, pendingRequests, timers, batch, batchQueued, flushPending,
          flights, lateBridgeCalls, lateBatchTimers, promises, calls, wire, sendCount,
          turnNo, turnOpen, healthCheckInterval, currentHealthStatus, healthListeners,
          intervalTimers, lastHealth, destroyed, subscriptions, pendingSubscriptions, isDestroying, entries,
          microtasks, teardowns, subscribers, lastEvent>>

\* The state of the SubscriptionManager and of its callers
managerVars == <<subscriptions, pendingSubscriptions, isDestroying, entries,
                 microtasks, teardowns, subscribers, lastEvent>>

\* The state of the transport and of its callers
transportVars == <<requestCounter, pendingRequests, timers, batch, batchQueued,
                   flushPending, flights, lateBridgeCalls, lateBatchTimers, promises,
                   calls, wire, sendCount, turnNo, turnOpen, healthCheckInterval,
                   currentHealthStatus, healthListeners, intervalTimers, lastHealth,
                   destroyed>>

----------------------------------------------------------------------------
(* Bounds of the model *)

MaxIds == 5
MaxResponse == 2
MaxProbes == 2
MaxLiveIds == 3
MaxSubscribers == 3

----------------------------------------------------------------------------
(* Program constants *)

DEFAULT_TIMEOUT_MS == 30000
HEALTH_CHECK_TIMEOUT_MS == 5000
LONG_RUNNING_TIMEOUT_MS == 120000

LONG_RUNNING_METHODS ==
    {"action:locations.add", "action:locations.rescan",
     "action:libraries.create", "action:jobs.run"}

DEFAULT_RETRY_CONFIG ==
    [maxRetries |-> 3, baseDelayMs |-> 1000, maxDelayMs |-> 10000, backoffMultiplier |-> 2]

NON_RETRYABLE_ERROR_TYPES ==
    {"INVALID_REQUEST", "INVALID_METHOD", "INVALID_LIBRARY_ID",
     "LIBRARY_NOT_FOUND", "SECURITY_ERROR", "VALIDATION_ERROR"}

(* Values that stand for JavaScript's undefined / null *)
NoTimeout == -1
NoId == 0

(* Math.random() is modelled in thousandths: a sample r stands for r / 1000. *)
RandomScale == 1000
(* calculateRetryDelay returns its delay in units of 1 / DelayScale ms, so that
   the 10% + random * 10% jitter is exact integer arithmetic. *)
DelayScale == 10000

----------------------------------------------------------------------------
(* Retry policy: pure functions *)

RECURSIVE Pow(_, _)
Pow(b, e) == IF e = 0 THEN 1 ELSE b * Pow(b, e - 1)

Min(a, b) == IF a <= b THEN a ELSE b

\* const boundedDelay = Math.min(base * multiplier^attempt, maxDelayMs)
boundedDelay(attempt, config) ==
    Min(config.baseDelayMs * Pow(config.backoffMultiplier, attempt), config.maxDelayMs)

\* calculateRetryDelay without Math.min(exponentialDelay, config.maxDelayMs)
calculateRetryDelayUncapped(attempt, config, random) ==
    config.baseDelayMs * Pow(config.backoffMultiplier, attempt) * DelayScale
        + config.baseDelayMs * Pow(config.backoffMultiplier, attempt) * (RandomScale + random)

\* boundedDelay + boundedDelay * (0.1 + Math.random() * 0.1), times DelayScale
calculateRetryDelay(attempt, config, random) ==
    boundedDelay(attempt, config) * DelayScale
        + boundedDelay(attempt, config) * (RandomScale + random)

\* isRetryableError with a list that names the validation failure only
isRetryableErrorShortList(error) ==
    error.errorType \notin {"VALIDATION_ERROR"}

\* Every error that reaches request() from requestInternal is a SpacedriveError.
isRetryableError(error) ==
    error.errorType \notin NON_RETRYABLE_ERROR_TYPES

\* The characters of the method names in use
Characters(name) ==
    CASE name = "action:locations.add" ->
           <<"a", "c", "t", "i", "o", "n", ":", "l", "o", "c", "a", "t", "i", "o", "n", "s", ".", "a", "d", "d">>
      [] name = "action:locations.rescan" ->
           <<"a", "c", "t", "i", "o", "n", ":", "l", "o", "c", "a", "t", "i", "o", "n", "s", ".", "r", "e", "s", "c", "a", "n">>
      [] name = "action:libraries.create" ->
           <<"a", "c", "t", "i", "o", "n", ":", "l", "i", "b", "r", "a", "r", "i", "e", "s", ".", "c", "r", "e", "a", "t", "e">>
      [] name = "action:jobs.run" ->
           <<"a", "c", "t", "i", "o", "n", ":", "j", "o", "b", "s", ".", "r", "u", "n">>
      [] name = "action:jobs.run.indexer" ->
           <<"a", "c", "t", "i", "o", "n", ":", "j", "o", "b", "s", ".", "r", "u", "n", ".", "i", "n", "d", "e", "x", "e", "r">>
      [] name = "action:jobs" ->
           <<"a", "c", "t", "i", "o", "n", ":", "j", "o", "b", "s">>
      [] name = "query:action:jobs.run" ->
           <<"q", "u", "e", "r", "y", ":", "a", "c", "t", "i", "o", "n", ":", "j", "o", "b", "s", ".", "r", "u", "n">>
      [] name = "query:files.directory_listing" ->
           <<"q", "u", "e", "r", "y", ":", "f", "i", "l", "e", "s", ".", "d", "i", "r", "e", "c", "t", "o", "r", "y", "_", "l", "i", "s", "t", "i", "n", "g">>
      [] name = "query:core.status" ->
           <<"q", "u", "e", "r", "y", ":", "c", "o", "r", "e", ".", "s", "t", "a", "t", "u", "s">>
      [] name = "query:core.ping" ->
           <<"q", "u", "e", "r", "y", ":", "c", "o", "r", "e", ".", "p", "i", "n", "g">>

\* String.prototype.startsWith
startsWith(str, searchString) ==
    LET a == Characters(str)
        b == Characters(searchString)
    IN Len(b) <= Len(a) /\ SubSeq(a, 1, Len(b)) = b

\* isLongRunningMethod comparing whole names
isLongRunningMethodExact(method) ==
    method \in LONG_RUNNING_METHODS

\* LONG_RUNNING_METHODS.some((m) => method.startsWith(m))
isLongRunningMethod(method) ==
    \E m \in LONG_RUNNING_METHODS : startsWith(method, m)

effectiveTimeout(method, timeout) ==
    IF timeout # NoTimeout THEN timeout
    ELSE IF isLongRunningMethod(method) THEN LONG_RUNNING_TIMEOUT_MS
    ELSE DEFAULT_TIMEOUT_MS

\* { ...DEFAULT_RETRY_CONFIG, ...options?.retry }
mergeRetryConfig(over) ==
    [k \in DOMAIN DEFAULT_RETRY_CONFIG |->
        IF k \in DOMAIN over THEN over[k] ELSE DEFAULT_RETRY_CONFIG[k]]

\* const retryConfig = options?.retry === false ? null : { ...defaults, ...retry }
NullConfig == [null |-> TRUE]
\* retryConfig that takes retry: false for "no override"
retryConfigIgnoresFalse(opts) ==
    mergeRetryConfig(opts.retry)

retryConfig(opts) ==
    IF opts.retryOff THEN NullConfig ELSE mergeRetryConfig(opts.retry)

\* maxAttempts with the loop bound off by one
maxAttemptsOneMore(opts) ==
    IF retryConfig(opts) # NullConfig THEN retryConfig(opts).maxRetries + 2 ELSE 1

\* const maxAttempts = retryConfig ? retryConfig.maxRetries + 1 : 1
maxAttempts(opts) ==
    IF retryConfig(opts) # NullConfig THEN retryConfig(opts).maxRetries + 1 ELSE 1

----------------------------------------------------------------------------
(* The transport's state as one record, so that every handler is a function
   from state to state. *)

Cur ==
    [requestCounter |-> requestCounter, pendingRequests |-> pendingRequests,
     timers |-> timers, batch |-> batch, batchQueued |-> batchQueued,
     flushPending |-> flushPending, flights |-> flights,
     lateBridgeCalls |-> lateBridgeCalls, lateBatchTimers |-> lateBatchTimers,
     promises |-> promises,
     calls |-> calls, wire |-> wire, sendCount |-> sendCount,
     turnNo |-> turnNo, turnOpen |-> turnOpen,
     healthCheckInterval |-> healthCheckInterval,
     currentHealthStatus |-> currentHealthStatus,
     healthListeners |-> healthListeners, intervalTimers |-> intervalTimers,
     lastHealth |-> lastHealth, destroyed |-> destroyed]

Becomes(t) ==
    /\ requestCounter' = t.requestCounter
    /\ pendingRequests' = t.pendingRequests
    /\ timers' = t.timers
    /\ batch' = t.batch
    /\ batchQueued' = t.batchQueued
    /\ flushPending' = t.flushPending
    /\ flights' = t.flights
    /\ lateBridgeCalls' = t.lateBridgeCalls
    /\ lateBatchTimers' = t.lateBatchTimers
    /\ promises' = t.promises
    /\ calls' = t.calls
    /\ wire' = t.wire
    /\ sendCount' = t.sendCount
    /\ turnNo' = t.turnNo
    /\ turnOpen' = t.turnOpen
    /\ healthCheckInterval' = t.healthCheckInterval
    /\ currentHealthStatus' = t.currentHealthStatus
    /\ healthListeners' = t.healthListeners
    /\ intervalTimers' = t.intervalTimers
    /\ lastHealth' = t.lastHealth
    /\ destroyed' = t.destroyed
    /\ UNCHANGED managerVars

\* A timer callback or a bridge completion starts a scheduler turn of its own.
newTurn(t) == [t EXCEPT !.turnOpen = FALSE]

----------------------------------------------------------------------------
(* Errors *)

\* new SpacedriveError(message, code, errorType, details): the message, the
\* kind, and the method / timeout of the details. A message is modelled by the
\* template it is built from; a message of the core by the request it is about.
SpacedriveError(message, errorType, method, timeout) ==
    [message |-> message, errorType |-> errorType, method |-> method, timeout |-> timeout]

\* errorData?.error_type ?? "UNKNOWN_ERROR"
NoErrorData == "<no data>"
responseErrorType(error_type) ==
    IF error_type = NoErrorData THEN "UNKNOWN_ERROR" ELSE error_type

\* A response envelope {id, result} or {id, error}. The core's result for a
\* request is named after the request it was computed for.
NoError == "<ok>"
NoValue == [none |-> TRUE]
NoKind == "<none>"
Envelope(id, error) == [id |-> id, error |-> error]
\* A JSON array, and Array.isArray
JsArray(a) == [array |-> a]
isArray(value) == "array" \in DOMAIN value
ResultFor(id) == [resultOf |-> id]
MessageFor(id) == [errorOf |-> id]
Template(text) == [template |-> text]
\* `${errorMessage} (method: ${req.method})`
Qualified(message, method) == [template |-> message.template, method |-> method]

----------------------------------------------------------------------------
(* request(): the retry loop around requestInternal *)

\* queueBatch(), up to the registration of the flush callback
queueBatch(t) ==
    IF t.batchQueued THEN t
    ELSE [t EXCEPT !.batchQueued = TRUE, !.flushPending = TRUE]

\* History is kept in full for the latest attempt of each call only.
isLatest(t, id) == t.calls[t.promises[id].c].cur = id

markLate(t, id) ==
    IF isLatest(t, id) THEN [t EXCEPT !.promises[id].late = TRUE] ELSE t

\* requestInternal taking a new identifier for the first attempt of a call
\* only: a further attempt is enqueued under the identifier of the previous one.
requestInternalKeepsId(t, c) ==
    LET id == IF t.calls[c].cur # NoId THEN t.calls[c].cur ELSE t.requestCounter + 1
        turn == IF t.turnOpen THEN t.turnNo ELSE t.turnNo + 1
        t1 == [t EXCEPT
                 !.requestCounter = IF id > @ THEN id ELSE @,
                 !.timers = @ \cup {id},
                 !.pendingRequests = @ \cup {id},
                 !.batch = Append(@, [id |-> id, method |-> t.calls[c].method]),
                 !.promises = [k \in DOMAIN @ |->
                                 IF k = t.calls[c].cur
                                 THEN [@[k] EXCEPT !.val = NoValue, !.late = FALSE,
                                                   !.timedOut = FALSE]
                                 ELSE @[k]]
                              @@ (id :> [c |-> c, out |-> "pending", val |-> NoValue,
                                         settles |-> 0, timedOut |-> FALSE, late |-> FALSE]),
                 !.wire = [k \in DOMAIN @ |->
                             IF k = t.calls[c].cur
                             THEN [@[k] EXCEPT !.rpos = 0, !.rerr = NoKind, !.fail = NoKind]
                             ELSE @[k]]
                          @@ (id :> [turn |-> turn, flush |-> 0, call |-> 0, pos |-> 0,
                                     sends |-> 0, rpos |-> 0, rerr |-> NoKind,
                                     fail |-> NoKind]),
                 !.turnNo = turn,
                 !.turnOpen = TRUE,
                 !.calls[c].cur = id,
                 !.calls[c].st = "waiting",
                 !.calls[c].attempts = @ + 1]
        t2 == queueBatch(t1)
    IN \* history: the bridge call the flush now pending will make, 0 if none is
       [t2 EXCEPT !.wire[id].flush = IF t2.flushPending THEN t2.sendCount + 1 ELSE 0]

\* requestInternal(method, params, timeout) called by caller c. The promise of
\* the caller's previous attempt is no longer referenced: its value is dropped.
requestInternal(t, c) ==
    LET id == t.requestCounter + 1
        turn == IF t.turnOpen THEN t.turnNo ELSE t.turnNo + 1
        t1 == [t EXCEPT
                 !.requestCounter = id,
                 !.timers = @ \cup {id},
                 !.pendingRequests = @ \cup {id},
                 !.batch = Append(@, [id |-> id, method |-> t.calls[c].method]),
                 !.promises = [k \in DOMAIN @ |->
                                 IF k = t.calls[c].cur
                                 THEN [@[k] EXCEPT !.val = NoValue, !.late = FALSE,
                                                   !.timedOut = FALSE]
                                 ELSE @[k]]
                              @@ (id :> [c |-> c, out |-> "pending", val |-> NoValue,
                                         settles |-> 0, timedOut |-> FALSE, late |-> FALSE]),
                 !.wire = [k \in DOMAIN @ |->
                             IF k = t.calls[c].cur
                             THEN [@[k] EXCEPT !.rpos = 0, !.rerr = NoKind, !.fail = NoKind]
                             ELSE @[k]]
                          @@ (id :> [turn |-> turn, flush |-> 0, call |-> 0, pos |-> 0,
                                     sends |-> 0, rpos |-> 0, rerr |-> NoKind,
                                     fail |-> NoKind]),
                 !.turnNo = turn,
                 !.turnOpen = TRUE,
                 !.calls[c].cur = id,
                 !.calls[c].st = "waiting",
                 !.calls[c].attempts = @ + 1]
        t2 == queueBatch(t1)
    IN \* history: the bridge call the flush now pending will make, 0 if none is
       [t2 EXCEPT !.wire[id].flush = IF t2.flushPending THEN t2.sendCount + 1 ELSE 0]

\* for (let attempt = ...; attempt < maxAttempts; attempt++) { try { return await
\* this.requestInternal(...) } ... } throw lastError ?? new Error("Request failed")
requestLoop(t, c) ==
    IF t.calls[c].attempt < maxAttempts(t.calls[c].opts)
    THEN requestInternal(t, c)
    ELSE [t EXCEPT !.calls[c].st = "rejected", !.calls[c].thrown = t.calls[c].lastError]

\* The catch block throwing the first error it ever saw instead of the current one
requestCatchThrowsFirst(t, c, error, random) ==
    LET call == t.calls[c]
        isLastAttempt == call.attempt >= maxAttempts(call.opts) - 1
        shouldRetry == /\ retryConfig(call.opts) # NullConfig
                       /\ ~isLastAttempt
                       /\ isRetryableError(error)
        first == IF call.lastError # NoValue THEN call.lastError ELSE error
        failed == [call EXCEPT !.lastError = first]
    IN IF ~shouldRetry
       THEN [t EXCEPT !.calls[c] = [failed EXCEPT !.st = "rejected", !.thrown = first]]
       ELSE [t EXCEPT !.calls[c] =
                [failed EXCEPT
                    !.st = "sleeping",
                    !.delays = Append(@, calculateRetryDelay(
                                   call.attempt, retryConfig(call.opts), random))]]

\* The catch block of request(): caller c's attempt failed with error.
requestCatch(t, c, error, random) ==
    LET call == t.calls[c]
        isLastAttempt == call.attempt >= maxAttempts(call.opts) - 1
        shouldRetry == /\ retryConfig(call.opts) # NullConfig
                       /\ ~isLastAttempt
                       /\ isRetryableError(error)
        failed == [call EXCEPT !.lastError = error]
    IN IF ~shouldRetry
       THEN [t EXCEPT !.calls[c] = [failed EXCEPT !.st = "rejected", !.thrown = error]]
       ELSE [t EXCEPT !.calls[c] =
                [failed EXCEPT
                    !.st = "sleeping",
                    !.delays = Append(@, calculateRetryDelay(
                                   call.attempt, retryConfig(call.opts), random))]]

\* return await this.requestInternal(...): the attempt resolved.
requestReturn(t, c, result) ==
    [t EXCEPT !.calls[c].st = "resolved", !.calls[c].result = result]

----------------------------------------------------------------------------
(* Health checks *)

\* A listener of the application that throws when it is called
throws(listener) == listener = "throwingListener"

\* healthListeners.forEach with the listener called outside a try block: the
\* first listener that throws ends the iteration.
RECURSIVE forEachListenerUncaught(_)
forEachListenerUncaught(listeners) ==
    IF listeners = <<>> THEN <<>>
    ELSE IF throws(Head(listeners)) THEN <<Head(listeners)>>
    ELSE <<Head(listeners)>> \o forEachListenerUncaught(Tail(listeners))

\* healthListeners.forEach((listener) => { try { listener(result) } catch ... }):
\* the listeners called, in order; what one of them throws is caught.
RECURSIVE forEachListener(_)
forEachListener(listeners) ==
    IF listeners = <<>> THEN <<>>
    ELSE <<Head(listeners)>> \o forEachListener(Tail(listeners))

\* updateHealthStatus(result) notifying on every result
updateHealthStatusAlwaysNotifies(t, status) ==
    [t EXCEPT !.currentHealthStatus = status,
              !.lastHealth = [previous |-> t.currentHealthStatus, status |-> status,
                              registered |-> t.healthListeners,
                              heard |-> forEachListener(t.healthListeners)]]

\* updateHealthStatus(result): the listeners are told of a change of status
\* and of every unhealthy result.
updateHealthStatus(t, status) ==
    LET previousStatus == t.currentHealthStatus
    IN [t EXCEPT !.currentHealthStatus = status,
                 !.lastHealth = [previous |-> previousStatus, status |-> status,
                                 registered |-> t.healthListeners,
                                 heard |-> IF previousStatus # status \/ status = "unhealthy"
                                           THEN forEachListener(t.healthListeners)
                                           ELSE <<>>]]

\* performHealthCheck(), up to its await: probe c calls
\* requestInternal("query:core.ping", {input: {}}, HEALTH_CHECK_TIMEOUT_MS).
performHealthCheck(t, c) == requestInternal(t, c)

\* The HealthCheckResult performHealthCheck() returns
HealthCheckResult(status) == [status |-> status]

\* performHealthCheck() after its await resolved: st is the outcome of the
\* awaited requestInternal, result what performHealthCheck returns.
healthCheckReturn(t, c, result) ==
    updateHealthStatus([t EXCEPT !.calls[c].st = "resolved",
                                !.calls[c].result = HealthCheckResult("healthy")],
                       "healthy")

\* performHealthCheck() awaiting request() with its retry loop (here without
\* the delay) in place of requestInternal()
healthCheckCatchRetries(t, c, error) ==
    IF isRetryableError(error)
    THEN requestInternal(t, c)
    ELSE updateHealthStatus([t EXCEPT !.calls[c].st = "rejected",
                                     !.calls[c].lastError = error,
                                     !.calls[c].result = HealthCheckResult("unhealthy")],
                            "unhealthy")

\* The catch block of performHealthCheck(): the error is caught and an
\* unhealthy result is returned.
healthCheckCatch(t, c, error) ==
    updateHealthStatus([t EXCEPT !.calls[c].st = "rejected", !.calls[c].lastError = error,
                                !.calls[c].result = HealthCheckResult("unhealthy")],
                       "unhealthy")

\* stopHealthCheck(): clearInterval of the stored handle
stopHealthCheck(t) ==
    IF t.healthCheckInterval
    THEN [t EXCEPT !.healthCheckInterval = FALSE, !.intervalTimers = @ - 1]
    ELSE t

\* startHealthCheck(intervalMs) without the test of the stored handle
startHealthCheckUnguarded(t, c) ==
    [performHealthCheck(t, c) EXCEPT !.healthCheckInterval = TRUE,
                                     !.intervalTimers = @ + 1]

\* startHealthCheck(intervalMs), its first probe being probe c
startHealthCheck(t, c) ==
    IF t.healthCheckInterval THEN t
    ELSE [performHealthCheck(t, c) EXCEPT !.healthCheckInterval = TRUE,
                                          !.intervalTimers = @ + 1]

----------------------------------------------------------------------------
(* The promise of one attempt *)

\* resolve(result) of the promise executor: a promise keeps its first outcome.
promiseResolve(t, id, result) ==
    LET p == t.promises[id]
        t1 == [t EXCEPT !.promises[id].settles = @ + 1]
        t2 == [t1 EXCEPT !.promises[id].out = "resolved", !.promises[id].val = result]
    IN IF p.out # "pending" THEN t1
       ELSE IF t.calls[p.c].probe THEN healthCheckReturn(t2, p.c, result)
       ELSE requestReturn(t2, p.c, result)

\* reject(error) of the promise executor
promiseReject(t, id, error, rnd) ==
    LET p == t.promises[id]
        t1 == [t EXCEPT !.promises[id].settles = @ + 1]
        t2 == [t1 EXCEPT !.promises[id].out = "rejected", !.promises[id].val = error]
    IN IF p.out # "pending" THEN t1
       ELSE IF t.calls[p.c].probe THEN healthCheckCatch(t2, p.c, error)
       ELSE requestCatch(t2, p.c, error, rnd[p.c])

\* pending.resolve: clearTimeout(timeoutId); resolve(result)
pendingResolve(t, id, result) ==
    promiseResolve([t EXCEPT !.timers = @ \ {id}], id, result)

\* pending.reject: clearTimeout(timeoutId); reject(error)
pendingReject(t, id, error, rnd) ==
    promiseReject([t EXCEPT !.timers = @ \ {id}], id, error, rnd)

----------------------------------------------------------------------------
(* Demultiplexing and batch failure *)

\* processResponse correlating by position in the table rather than by
\* response.id: the envelope goes to the oldest pending entry.
processResponseOldestPending(t, response, rnd) ==
    IF t.pendingRequests = {} THEN t
    ELSE LET id == CHOOSE k \in t.pendingRequests : \A m \in t.pendingRequests : k <= m
             settled ==
                 IF response.error # NoError
                 THEN pendingReject(t, id,
                          SpacedriveError(MessageFor(response.id),
                              responseErrorType(response.error), "", NoTimeout),
                          rnd)
                 ELSE pendingResolve(t, id, ResultFor(response.id))
         IN [settled EXCEPT !.pendingRequests = @ \ {id}]

\* processResponse without its "if (!pending) return"
processResponseUnguarded(t, response, rnd) ==
    LET settled ==
            IF response.error # NoError
            THEN pendingReject(t, response.id,
                     SpacedriveError(MessageFor(response.id),
                         responseErrorType(response.error), "", NoTimeout),
                     rnd)
            ELSE pendingResolve(t, response.id, ResultFor(response.id))
    IN [settled EXCEPT !.pendingRequests = @ \ {response.id}]

\* processResponse failing every pending request on an error envelope
RECURSIVE rejectAllPending(_, _, _, _)
rejectAllPending(t, ids, error, rnd) ==
    IF ids = {} THEN t
    ELSE LET id == CHOOSE k \in ids : \A m \in ids : k <= m
         IN rejectAllPending(
                [pendingReject(t, id, error, rnd) EXCEPT !.pendingRequests = @ \ {id}],
                ids \ {id}, error, rnd)

processResponseFailsSiblings(t, response, rnd) ==
    IF response.id \notin t.pendingRequests
    THEN markLate(t, response.id)
    ELSE IF response.error # NoError
         THEN rejectAllPending(t, t.pendingRequests,
                  SpacedriveError(MessageFor(response.id),
                      responseErrorType(response.error), "", NoTimeout),
                  rnd)
         ELSE [pendingResolve(t, response.id, ResultFor(response.id))
                 EXCEPT !.pendingRequests = @ \ {response.id}]

\* processResponse(response)
processResponse(t, response, rnd) ==
    IF response.id \notin t.pendingRequests
    THEN markLate(t, response.id)
    ELSE LET settled ==
                 IF response.error # NoError
                 THEN pendingReject(t, response.id,
                          SpacedriveError(MessageFor(response.id),
                              responseErrorType(response.error), "", NoTimeout),
                          rnd)
                 ELSE pendingResolve(t, response.id, ResultFor(response.id))
         IN [settled EXCEPT !.pendingRequests = @ \ {response.id}]

\* result.forEach(this.processResponse)
RECURSIVE processAll(_, _, _, _)
processAll(t, result, i, rnd) ==
    IF i > Len(result) THEN t
    ELSE LET t1 == processResponse(t, result[i], rnd)
             t2 == IF result[i].id \in t.pendingRequests
                   THEN [t1 EXCEPT !.wire[result[i].id].rpos = i,
                                   !.wire[result[i].id].rerr = result[i].error]
                   ELSE t1
         IN processAll(t2, result, i + 1, rnd)

\* History: the requests of flight f that are pending when the flush handler
\* of f catches an error of the given kind.
noteBatchFailure(t, f, errorType) ==
    [t EXCEPT !.wire = [id \in DOMAIN @ |->
        IF id \in t.pendingRequests /\ isLatest(t, id)
              /\ \E k \in 1..Len(f.reqs) : f.reqs[k].id = id
        THEN [@[id] EXCEPT !.fail = errorType]
        ELSE @[id]]]

\* The catch block of the flush handler: reject what is still pending of the batch.
RECURSIVE rejectBatch(_, _, _, _, _)
rejectBatch(t, currentBatch, message, errorType, rnd) ==
    IF currentBatch = <<>> THEN t
    ELSE LET req == Head(currentBatch)
             t1 == IF req.id \in t.pendingRequests
                   THEN [pendingReject(t, req.id,
                             SpacedriveError(Qualified(message, req.method), errorType,
                                             req.method, NoTimeout),
                             rnd)
                           EXCEPT !.pendingRequests = @ \ {req.id}]
                   ELSE markLate(t, req.id)
         IN rejectBatch(t1, Tail(currentBatch), message, errorType, rnd)

\* finally { this.batchQueued = false }: the flush handler of flight f ends.
flushFinally(t, f) ==
    [t EXCEPT !.batchQueued = FALSE, !.flights = @ \ {f}]

\* The value handed to JSON.stringify, with every snapshot wrapped in an array
queryAlwaysArray(currentBatch) == JsArray(currentBatch)

\* currentBatch.length === 1 ? currentBatch[0] : currentBatch
query(currentBatch) ==
    IF Len(currentBatch) = 1 THEN currentBatch[1] ELSE JsArray(currentBatch)

\* The flush callback, from the snapshot to the await of Promise.race
flushStart(t) ==
    LET currentBatch == t.batch
        n == Len(currentBatch)
        t1 == [t EXCEPT !.batch = <<>>, !.flushPending = FALSE]
    IN IF n = 0 THEN [t1 EXCEPT !.batchQueued = FALSE]
       ELSE [t1 EXCEPT
               !.flights = @ \cup {[reqs |-> currentBatch, call |-> t.sendCount + 1,
                                    query |-> query(currentBatch)]},
               !.sendCount = @ + 1,
               !.wire = [id \in DOMAIN @ |->
                           IF \E i \in 1..n : currentBatch[i].id = id
                           THEN [@[id] EXCEPT
                                   !.call = t.sendCount + 1,
                                   !.pos = CHOOSE i \in 1..n : currentBatch[i].id = id,
                                   !.sends = @ + 1]
                           ELSE @[id]]]

\* if (Array.isArray(result)) result.forEach(this.processResponse) else
\* this.processResponse(result), the latter with the history of processAll
demultiplex(t, result, rnd) ==
    IF isArray(result)
    THEN processAll(t, result.array, 1, rnd)
    ELSE processAll(t, <<result>>, 1, rnd)

\* The flush handler rejecting, after the demultiplexing, the requests of its
\* batch that the response left out
bridgeResolvedRejectsMissing(t, f, result, rnd) ==
    [flushFinally(rejectBatch(demultiplex(t, result, rnd), f.reqs,
                             Template("<no response>"), "BATCH_FAILED", rnd), f)
        EXCEPT !.lateBatchTimers = @ + 1]

\* SDMobileCore.sendMessage resolved first, with a parseable result; the batch
\* timer stays armed.
bridgeResolved(t, f, result, rnd) ==
    [flushFinally(demultiplex(t, result, rnd), f) EXCEPT !.lateBatchTimers = @ + 1]

\* SDMobileCore.sendMessage rejected first, or JSON.parse of its result threw.
bridgeFailed(t, f, rnd) ==
    [flushFinally(rejectBatch(noteBatchFailure(t, f, "BATCH_FAILED"), f.reqs,
                             Template("<e.message>"), "BATCH_FAILED", rnd), f)
        EXCEPT !.lateBatchTimers = @ + 1]

\* The batch timer fired first: timeoutPromise rejects with a BATCH_TIMEOUT
\* error; the bridge call stays outstanding.
batchTimeout(t, f, rnd) ==
    [flushFinally(rejectBatch(noteBatchFailure(t, f, "BATCH_TIMEOUT"), f.reqs,
                             Template("Batch request timeout after <batchTimeout>ms (<n> requests)"),
                             "BATCH_TIMEOUT", rnd), f)
        EXCEPT !.lateBridgeCalls = @ + 1]

\* The per-request timer's callback without this.pendingRequests.delete(id)
requestTimeoutKeepsEntry(t, id, rnd) ==
    LET t1 == [t EXCEPT !.timers = @ \ {id}]
        p == t.promises[id]
        call == t.calls[p.c]
    IN IF id \notin t.pendingRequests THEN t1
       ELSE promiseReject(
                [t1 EXCEPT !.promises[id].timedOut = TRUE],
                id,
                SpacedriveError(Template("Request timeout after <effectiveTimeout>ms: <method>"),
                                "TIMEOUT", call.method,
                                effectiveTimeout(call.method, call.opts.timeout)),
                rnd)

\* A per-request timer whose callback does nothing
requestTimeoutDoesNothing(t, id, rnd) ==
    [t EXCEPT !.timers = @ \ {id}]

\* The per-request timer's callback
requestTimeout(t, id, rnd) ==
    LET t1 == [t EXCEPT !.timers = @ \ {id}]
        p == t.promises[id]
        call == t.calls[p.c]
    IN IF id \notin t.pendingRequests THEN t1
       ELSE promiseReject(
                [t1 EXCEPT !.pendingRequests = @ \ {id}, !.promises[id].timedOut = TRUE],
                id,
                SpacedriveError(Template("Request timeout after <effectiveTimeout>ms: <method>"),
                                "TIMEOUT", call.method,
                                effectiveTimeout(call.method, call.opts.timeout)),
                rnd)

----------------------------------------------------------------------------
(* Inputs *)

NoOverride == [k \in {} |-> 0]

Options(timeout, retryOff, retry) ==
    [timeout |-> timeout, retryOff |-> retryOff, retry |-> retry]

\* One call of request(method, params, options), before it is made.
NewCall(method, opts) ==
    [method |-> method, opts |-> opts, st |-> "idle", attempt |-> 0, attempts |-> 0,
     cur |-> NoId, lastError |-> NoValue, delays |-> <<>>, result |-> NoValue,
     thrown |-> NoValue, probe |-> FALSE]

\* One call of performHealthCheck(), before it is made.
NewProbe ==
    [NewCall("query:core.ping", Options(HEALTH_CHECK_TIMEOUT_MS, TRUE, NoOverride))
        EXCEPT !.probe = TRUE]

\* Calls made concurrently by two callers.
MainCalls ==
    { NewCall("query:files.directory_listing", Options(NoTimeout, TRUE, NoOverride)),
      NewCall("action:jobs.run", Options(NoTimeout, FALSE, [maxRetries |-> 1])),
      NewCall("query:core.status", Options(5000, FALSE, [maxRetries |-> 1])) }

\* Calls of one caller, over the retry options.
RetryCalls ==
    { NewCall("query:files.directory_listing", Options(NoTimeout, r[1], r[2])) :
        r \in { <<TRUE, NoOverride>>, <<FALSE, NoOverride>>,
                <<FALSE, [maxRetries |-> 0]>>, <<FALSE, [maxRetries |-> 1]>>,
                <<FALSE, [maxRetries |-> 2, backoffMultiplier |-> 1]>>,
                <<FALSE, [maxRetries |-> 2, baseDelayMs |-> 800, maxDelayMs |-> 1500]>> } }

\* The pairs of calls checked together: at most three attempts in all.
MainCallers ==
    { c \in [1..2 -> MainCalls] : maxAttempts(c[1].opts) + maxAttempts(c[2].opts) <= 3 }

\* error_type values the core answers with
MainErrorTypes == {"VALIDATION_ERROR", NoErrorData}
AllErrorTypes == NON_RETRYABLE_ERROR_TYPES \cup {NoErrorData, "INTERNAL_ERROR"}

\* Math.random() samples, in thousandths
MainRandoms == {500}
AllRandoms == {0, 999}

RECURSIVE SeqsUpTo(_, _)
SeqsUpTo(S, n) ==
    IF n = 0 THEN {<<>>}
    ELSE LET shorter == SeqsUpTo(S, n - 1)
         IN shorter \cup {Append(q, x) : q \in {r \in shorter : Len(r) = n - 1}, x \in S}

\* What the bridge may answer to the batch of flight f: envelopes for requests
\* of that batch, in any order, with omissions and repetitions.
\* processResponse reads nothing but the id of an envelope whose request is no
\* longer pending, so one envelope stands for all envelopes with that id.
Responses(f, errorTypes) ==
    SeqsUpTo({Envelope(f.reqs[i].id, e) :
                 i \in 1..Len(f.reqs), e \in {NoError} \cup errorTypes}
               \ {env \in {Envelope(f.reqs[i].id, e) : i \in 1..Len(f.reqs), e \in errorTypes} :
                     env.id \notin pendingRequests},
             MaxResponse)

\* JSON.parse(resultStr): the envelopes in an array, or one envelope alone
Results(f, errorTypes) ==
    {JsArray(r) : r \in Responses(f, errorTypes)}
        \cup {r[1] : r \in {q \in Responses(f, errorTypes) : Len(q) = 1}}

Draws(randoms) == [DOMAIN calls -> randoms]

----------------------------------------------------------------------------
(* Actions *)

\* No SubscriptionManager has been constructed.
NoManager ==
    /\ subscriptions = <<>>
    /\ pendingSubscriptions = <<>>
    /\ isDestroying = FALSE
    /\ entries = <<>>
    /\ microtasks = <<>>
    /\ teardowns = {}
    /\ subscribers = <<>>
    /\ lastEvent = NoValue

InitWith(callSet, n) ==
    /\ requestCounter = 0
    /\ pendingRequests = {}
    /\ timers = {}
    /\ batch = <<>>
    /\ batchQueued = FALSE
    /\ flushPending = FALSE
    /\ flights = {}
    /\ lateBridgeCalls = 0
    /\ lateBatchTimers = 0
    /\ promises = <<>>
    /\ calls \in [1..n -> callSet]
    /\ wire = <<>>
    /\ sendCount = 0
    /\ turnNo = 0
    /\ turnOpen = FALSE
    /\ healthCheckInterval = FALSE
    /\ currentHealthStatus = "unknown"
    /\ healthListeners = <<>>
    /\ intervalTimers = 0
    /\ lastHealth = NoValue
    /\ destroyed = FALSE
    /\ NoManager

\* A caller calls request(): the first attempt is enqueued in the caller's turn.
Request(c) ==
    /\ calls[c].st = "idle"
    /\ requestCounter < MaxIds
    /\ Becomes(requestLoop(Cur, c))

\* The scheduler turn in which the last request was enqueued ends.
TurnEnd ==
    /\ turnOpen
    /\ turnOpen' = FALSE
    /\ UNCHANGED <<requestCounter, pendingRequests, timers, batch, batchQueued,
                   flushPending, flights, lateBridgeCalls, lateBatchTimers, promises,
                   calls, wire, sendCount, turnNo, healthCheckInterval,
                   currentHealthStatus, healthListeners, intervalTimers, lastHealth,
                   destroyed>>
    /\ UNCHANGED managerVars

\* await sleep(delay) ends: the loop of request() makes its next attempt.
Wake(c) ==
    /\ calls[c].st = "sleeping"
    /\ requestCounter < MaxIds
    /\ Becomes(requestLoop([newTurn(Cur) EXCEPT !.calls[c].attempt = @ + 1], c))

\* The zero-delay flush callback runs up to its await.
Flush ==
    /\ flushPending
    /\ Becomes(flushStart(newTurn(Cur)))

BridgeReturn(f, result, rnd) ==
    Becomes(bridgeResolved(newTurn(Cur), f, result, rnd))

BridgeFail(f, rnd) ==
    Becomes(bridgeFailed(newTurn(Cur), f, rnd))

BatchTimerFire(f, rnd) ==
    Becomes(batchTimeout(newTurn(Cur), f, rnd))

\* A bridge call completes after its batch timed out: Promise.race has settled,
\* the result is dropped.
LateBridgeReturn ==
    /\ lateBridgeCalls > 0
    /\ Becomes([newTurn(Cur) EXCEPT !.lateBridgeCalls = @ - 1])

\* A batch timer fires after its bridge call completed: rejecting the settled
\* timeoutPromise race changes nothing.
LateBatchTimerFire ==
    /\ lateBatchTimers > 0
    /\ Becomes([newTurn(Cur) EXCEPT !.lateBatchTimers = @ - 1])

TimerFire(id, rnd) ==
    /\ id \in timers
    /\ Becomes(requestTimeout(newTurn(Cur), id, rnd))

Init == InitWith(MainCalls, 2) /\ calls \in MainCallers

Next ==
    \/ \E c \in DOMAIN calls : Request(c)
    \/ TurnEnd
    \/ \E c \in DOMAIN calls : Wake(c)
    \/ Flush
    \/ \E f \in flights, rnd \in Draws(MainRandoms) :
          \E result \in Results(f, MainErrorTypes) : BridgeReturn(f, result, rnd)
    \/ \E f \in flights, rnd \in Draws(MainRandoms) : BridgeFail(f, rnd)
    \/ \E f \in flights, rnd \in Draws(MainRandoms) : BatchTimerFire(f, rnd)
    \/ \E id \in timers, rnd \in Draws(MainRandoms) : TimerFire(id, rnd)
    \/ LateBridgeReturn
    \/ LateBatchTimerFire

Spec == Init /\ [][Next]_vars

\* Armed timers fire. The zero-delay flush timer runs its callback. A
\* per-request timer leaves the set of armed timers only by firing or by
\* clearTimeout, and a sleeping retry loop leaves its sleep only by waking:
\* for these, weak fairness of the timer callback is the statement that the
\* timer is not armed for ever, which is what is written. The bridge owes
\* nothing: it may never answer.
TimersFire ==
    /\ WF_vars(Flush)
    /\ \A id \in 1..MaxIds : []<>(id \notin timers)
    /\ \A c \in {1, 2} : []<>(calls[c].st # "sleeping")

SpecTimersFire == Spec /\ TimersFire

InitRetry == InitWith(RetryCalls, 1)

NextRetry ==
    \/ \E c \in DOMAIN calls : Request(c)
    \/ TurnEnd
    \/ \E c \in DOMAIN calls : Wake(c)
    \/ Flush
    \/ \E f \in flights, rnd \in Draws(AllRandoms) :
          \E result \in Results(f, AllErrorTypes) : BridgeReturn(f, result, rnd)
    \/ \E f \in flights, rnd \in Draws(AllRandoms) : BridgeFail(f, rnd)
    \/ \E f \in flights, rnd \in Draws(AllRandoms) : BatchTimerFire(f, rnd)
    \/ \E id \in timers, rnd \in Draws(AllRandoms) : TimerFire(id, rnd)
    \/ LateBridgeReturn
    \/ LateBatchTimerFire

SpecRetry == InitRetry /\ [][NextRetry]_vars

\* Calls over the method names and the timeout option, made without retry:
\* the long-running names, a longer name that starts with one, a shorter one,
\* one that holds a long-running name further on, and an ordinary one; the
\* option absent, 5000 and 0.
TimeoutMethods ==
    LONG_RUNNING_METHODS \cup {"action:jobs.run.indexer", "action:jobs",
                               "query:action:jobs.run", "query:files.directory_listing"}

TimeoutCalls ==
    { NewCall(method, Options(timeout, TRUE, NoOverride)) :
        method \in TimeoutMethods, timeout \in {NoTimeout, 5000, 0} }

\* The first caller makes any of the calls, the second an ordinary one.
InitTimeout ==
    /\ InitWith(TimeoutCalls, 2)
    /\ calls[2] = NewCall("query:files.directory_listing", Options(NoTimeout, TRUE, NoOverride))

NextTimeout ==
    \/ \E c \in DOMAIN calls : Request(c)
    \/ TurnEnd
    \/ Flush
    \/ \E f \in flights, rnd \in Draws(MainRandoms) :
          \E result \in Results(f, {NoErrorData}) : BridgeReturn(f, result, rnd)
    \/ \E f \in flights, rnd \in Draws(MainRandoms) : BridgeFail(f, rnd)
    \/ \E f \in flights, rnd \in Draws(MainRandoms) : BatchTimerFire(f, rnd)
    \/ \E id \in timers, rnd \in Draws(MainRandoms) : TimerFire(id, rnd)
    \/ LateBridgeReturn
    \/ LateBatchTimerFire

SpecTimeout == InitTimeout /\ [][NextTimeout]_vars

----------------------------------------------------------------------------
(* The transport of apps/mobile/src/client/transport.ts: the same pending
   table, timers and demultiplexer, but no retry loop, no batch timeout, and
   a flush handler that resets batchQueued right after its snapshot. Its
   request() is the single attempt of a call made with retry off. *)

\* new Error("Batch request failed"): an Error has a message and nothing else.
PlainError(message) == SpacedriveError(message, NoKind, "", NoTimeout)

\* The flush callback of transport.ts, up to its await of sendMessage
flushStartBasic(t) ==
    LET currentBatch == t.batch
        n == Len(currentBatch)
        t1 == [t EXCEPT !.batch = <<>>, !.flushPending = FALSE, !.batchQueued = FALSE]
    IN IF n = 0 THEN t1
       ELSE [t1 EXCEPT
               !.flights = @ \cup {[reqs |-> currentBatch, call |-> t.sendCount + 1,
                                    query |-> query(currentBatch)]},
               !.sendCount = @ + 1,
               !.wire = [id \in DOMAIN @ |->
                           IF \E i \in 1..n : currentBatch[i].id = id
                           THEN [@[id] EXCEPT
                                   !.call = t.sendCount + 1,
                                   !.pos = CHOOSE i \in 1..n : currentBatch[i].id = id,
                                   !.sends = @ + 1]
                           ELSE @[id]]]

\* The catch block of transport.ts
RECURSIVE rejectBatchBasic(_, _, _)
rejectBatchBasic(t, currentBatch, rnd) ==
    IF currentBatch = <<>> THEN t
    ELSE LET req == Head(currentBatch)
             t1 == IF req.id \in t.pendingRequests
                   THEN [pendingReject(t, req.id,
                             PlainError(Template("Batch request failed")), rnd)
                           EXCEPT !.pendingRequests = @ \ {req.id}]
                   ELSE markLate(t, req.id)
         IN rejectBatchBasic(t1, Tail(currentBatch), rnd)

\* sendMessage resolved with a parseable result
bridgeResolvedBasic(t, f, result, rnd) ==
    [demultiplex(t, result, rnd) EXCEPT !.flights = @ \ {f}]

\* sendMessage rejected, or JSON.parse of its result threw
bridgeFailedBasic(t, f, rnd) ==
    [rejectBatchBasic(noteBatchFailure(t, f, "BATCH_FAILED"), f.reqs, rnd)
        EXCEPT !.flights = @ \ {f}]

\* Calls of request(method, params, {timeout}) made by three callers
BasicCalls ==
    { NewCall("query:files.directory_listing", Options(NoTimeout, TRUE, NoOverride)),
      NewCall("action:jobs.run", Options(NoTimeout, TRUE, NoOverride)),
      NewCall("query:core.status", Options(5000, TRUE, NoOverride)) }

FlushBasic ==
    /\ flushPending
    /\ Becomes(flushStartBasic(newTurn(Cur)))

BridgeReturnBasic(f, result, rnd) ==
    Becomes(bridgeResolvedBasic(newTurn(Cur), f, result, rnd))

BridgeFailBasic(f, rnd) ==
    Becomes(bridgeFailedBasic(newTurn(Cur), f, rnd))

\* One caller per call profile; the callers act in any order.
InitBasic ==
    /\ InitWith(BasicCalls, 3)
    /\ calls[1].method = "query:files.directory_listing"
    /\ calls[2].method = "action:jobs.run"
    /\ calls[3].method = "query:core.status"

NextBasic ==
    \/ \E c \in DOMAIN calls : Request(c)
    \/ TurnEnd
    \/ FlushBasic
    \/ \E f \in flights, rnd \in Draws(MainRandoms) :
          \E result \in Results(f, MainErrorTypes) : BridgeReturnBasic(f, result, rnd)
    \/ \E f \in flights, rnd \in Draws(MainRandoms) : BridgeFailBasic(f, rnd)
    \/ \E id \in timers, rnd \in Draws(MainRandoms) : TimerFire(id, rnd)

SpecBasic == InitBasic /\ [][NextBasic]_vars

----------------------------------------------------------------------------
(* The life of one transport: requests, health checks and destroy() *)

\* destroy()
destroy(t) ==
    [stopHealthCheck(t) EXCEPT
        !.timers = @ \ t.pendingRequests,
        !.pendingRequests = {},
        !.batch = <<>>,
        !.healthListeners = <<>>,
        !.destroyed = TRUE]

\* The calls of the application, and the probes the health check can make
LifeCalls ==
    { NewCall("action:jobs.run", Options(NoTimeout, FALSE, [maxRetries |-> 1])) }

Probes == {c \in DOMAIN calls : calls[c].probe}
\* performHealthCheck() is called again once its previous call has returned,
\* MaxProbes times in all.
IdleProbes ==
    {c \in Probes : calls[c].st \in {"idle", "resolved", "rejected"}
                      /\ calls[c].attempts < MaxProbes}
NextProbe == CHOOSE c \in IdleProbes : \A d \in IdleProbes : c <= d

\* error_type values the core answers with
LifeErrorTypes == {NoErrorData}

\* Listeners the application registers
Listeners == {"listener"}

\* The application calls request(); it makes no new call after destroy().
LiveRequest(c) ==
    /\ ~destroyed
    /\ ~calls[c].probe
    /\ requestCounter < MaxLiveIds
    /\ Request(c)

\* await sleep(delay) ends in request(), before or after destroy().
LiveWake(c) ==
    /\ requestCounter < MaxLiveIds
    /\ Wake(c)

\* onHealthChange(listener): Set.add keeps a listener that is already there
\* at its place.
onHealthChange(t, listener) ==
    IF \E i \in DOMAIN t.healthListeners : t.healthListeners[i] = listener
    THEN t
    ELSE [t EXCEPT !.healthListeners = Append(@, listener)]

\* The application calls startHealthCheck() (not after destroy()).
StartHealthCheck ==
    /\ ~destroyed
    /\ IdleProbes # {}
    /\ requestCounter < MaxLiveIds
    /\ Becomes(startHealthCheck(Cur, NextProbe))

\* The setInterval callback of startHealthCheck runs.
HealthTick ==
    /\ intervalTimers > 0
    /\ IdleProbes # {}
    /\ requestCounter < MaxLiveIds
    /\ Becomes(performHealthCheck(newTurn(Cur), NextProbe))

\* The application calls stopHealthCheck().
StopHealthCheck ==
    /\ ~destroyed
    /\ healthCheckInterval
    /\ Becomes(stopHealthCheck(Cur))

\* The application calls onHealthChange(listener).
OnHealthChange(listener) ==
    /\ ~destroyed
    /\ \A i \in DOMAIN healthListeners : healthListeners[i] # listener
    /\ Becomes(onHealthChange(Cur, listener))

\* The application calls destroy(), a first or a further time.
Destroy ==
    Becomes(destroy(newTurn(Cur)))

InitLife ==
    /\ InitWith(LifeCalls \cup {NewProbe}, 2)
    /\ calls[1] \in LifeCalls
    /\ calls[2] = NewProbe

NextLife ==
    \/ \E c \in DOMAIN calls : LiveRequest(c)
    \/ TurnEnd
    \/ \E c \in DOMAIN calls : LiveWake(c)
    \/ Flush
    \/ \E f \in flights, rnd \in Draws(MainRandoms) :
          \E result \in Results(f, LifeErrorTypes) : BridgeReturn(f, result, rnd)
    \/ \E f \in flights, rnd \in Draws(MainRandoms) : BridgeFail(f, rnd)
    \/ \E f \in flights, rnd \in Draws(MainRandoms) : BatchTimerFire(f, rnd)
    \/ \E id \in timers, rnd \in Draws(MainRandoms) : TimerFire(id, rnd)
    \/ LateBridgeReturn
    \/ LateBatchTimerFire
    \/ StartHealthCheck
    \/ HealthTick
    \/ StopHealthCheck
    \/ \E listener \in Listeners : OnHealthChange(listener)
    \/ Destroy

SpecLife == InitLife /\ [][NextLife]_vars

----------------------------------------------------------------------------
(* Health checks alone: two performHealthCheck() calls may overlap, and one
   of the listeners throws. *)

HealthListeners == {"listener", "throwingListener"}

InitHealth ==
    InitWith({NewProbe}, 2)

NextHealth ==
    \/ TurnEnd
    \/ Flush
    \/ \E f \in flights, rnd \in Draws(MainRandoms) :
          \E result \in Results(f, LifeErrorTypes) : BridgeReturn(f, result, rnd)
    \/ \E f \in flights, rnd \in Draws(MainRandoms) : BridgeFail(f, rnd)
    \/ \E f \in flights, rnd \in Draws(MainRandoms) : BatchTimerFire(f, rnd)
    \/ \E id \in timers, rnd \in Draws(MainRandoms) : TimerFire(id, rnd)
    \/ LateBridgeReturn
    \/ LateBatchTimerFire
    \/ StartHealthCheck
    \/ HealthTick
    \/ StopHealthCheck
    \/ \E listener \in HealthListeners : OnHealthChange(listener)

SpecHealth == InitHealth /\ [][NextHealth]_vars

----------------------------------------------------------------------------
(* The SubscriptionManager (subscriptionManager.ts)

   subscribe() is an async function: it runs to its first await in the turn of
   its caller, and each continuation runs as a microtask. The application may
   call subscribe(), a cleanup closure or destroy() between two microtasks;
   events of the core and timer callbacks run only when no microtask is left. *)

\* An optional field of a filter: absent (undefined), or present with a value
None == [some |-> FALSE]
Some(v) == [some |-> TRUE, v |-> v]

\* JavaScript values: null, a string, a boolean, an array of strings
Null == [null |-> TRUE]
JsString(str) == [string |-> str]
JsBoolean(b) == [boolean |-> b]

\* x ?? d: d when x is undefined or null
orElse(x, d) == IF x.some /\ x.v # Null THEN x.v ELSE d

EventFilter(library_id, resource_type, path_scope, include_descendants, event_types) ==
    [library_id |-> library_id, resource_type |-> resource_type,
     path_scope |-> path_scope, include_descendants |-> include_descendants,
     event_types |-> event_types]

\* The text of a JSON string, as a sequence of tokens
Quoted(str) == <<"\"", str, "\"">>

RECURSIVE JoinQuoted(_)
JoinQuoted(a) ==
    IF a = <<>> THEN <<>>
    ELSE IF Len(a) = 1 THEN Quoted(a[1])
    ELSE Quoted(a[1]) \o <<",">> \o JoinQuoted(Tail(a))

\* JSON.stringify(value): the text, as a sequence of tokens
JSONstringify(value) ==
    IF "null" \in DOMAIN value THEN <<"null">>
    ELSE IF "string" \in DOMAIN value THEN Quoted(value.string)
    ELSE IF "boolean" \in DOMAIN value
    THEN (IF value.boolean THEN <<"true">> ELSE <<"false">>)
    ELSE <<"[">> \o JoinQuoted(value.array) \o <<"]">>

\* JSON.stringify of an object given as a sequence of <<name, value>> pairs;
\* a property whose value is undefined is left out.
RECURSIVE JoinProperties(_)
JoinProperties(props) ==
    IF props = <<>> THEN <<>>
    ELSE LET first == Quoted(props[1][1]) \o <<":">> \o JSONstringify(props[1][2].v)
         IN IF Len(props) = 1 THEN first
            ELSE first \o <<",">> \o JoinProperties(Tail(props))

JSONstringifyObject(props) ==
    <<"{">> \o JoinProperties(SelectSeq(props, LAMBDA pr : pr[2].some)) \o <<"}">>

\* getFilterKey(filter) serializing the filter as it is, without defaults
getFilterKeyNoDefaults(filter) ==
    JSONstringifyObject(<<
        <<"library_id", filter.library_id>>,
        <<"resource_type", filter.resource_type>>,
        <<"path_scope", filter.path_scope>>,
        <<"include_descendants", filter.include_descendants>>,
        <<"event_types", filter.event_types>> >>)

\* getFilterKey(filter): JSON.stringify of an object with these five
\* properties in this order, each with its default in place of undefined or
\* null.
getFilterKey(filter) ==
    JSONstringifyObject(<<
        <<"library_id", Some(orElse(filter.library_id, Null))>>,
        <<"resource_type", Some(orElse(filter.resource_type, Null))>>,
        <<"path_scope", Some(orElse(filter.path_scope, Null))>>,
        <<"include_descendants", Some(orElse(filter.include_descendants, JsBoolean(FALSE)))>>,
        <<"event_types", Some(orElse(filter.event_types, JsArray(<<>>)))>> >>)

\* matchesFilter(event, filter); an event is modelled by its type name.
matchesFilter(event, filter) ==
    IF /\ filter.event_types.some /\ filter.event_types.v # Null
       /\ Len(filter.event_types.v.array) > 0
    THEN \E i \in 1..Len(filter.event_types.v.array) : filter.event_types.v.array[i] = event
    ELSE TRUE

\* The manager's state as one record
ManagerCur ==
    [subscriptions |-> subscriptions, pendingSubscriptions |-> pendingSubscriptions,
     isDestroying |-> isDestroying, entries |-> entries, microtasks |-> microtasks,
     teardowns |-> teardowns, subscribers |-> subscribers, lastEvent |-> lastEvent]

ManagerBecomes(m) ==
    /\ subscriptions' = m.subscriptions
    /\ pendingSubscriptions' = m.pendingSubscriptions
    /\ isDestroying' = m.isDestroying
    /\ entries' = m.entries
    /\ microtasks' = m.microtasks
    /\ teardowns' = m.teardowns
    /\ subscribers' = m.subscribers
    /\ lastEvent' = m.lastEvent
    /\ UNCHANGED transportVars

\* Map.get(key) of a key that is not in the map
NoEntry == 0

\* entry.listeners.add(callback); entry.refCount++; return this.createCleanup(key,
\* callback): subscriber s is attached to the entry object e. The Set is the
\* pair of fields listeners (its members) and order (its insertion order, the
\* order forEach visits them in): adding a member again leaves its place.
\* History: the callers attached to the entry, in the order of their attachment.
attachListener(m, s, e) ==
    [m EXCEPT !.entries[e].listeners = @ \cup {m.subscribers[s].callback},
              !.entries[e].order = IF m.subscribers[s].callback \in m.entries[e].listeners
                                   THEN @ ELSE Append(@, m.subscribers[s].callback),
              !.entries[e].refCount = @ + 1,
              !.entries[e].registered = Append(@, s),
              !.subscribers[s].st = "subscribed",
              !.subscribers[s].entry = e]

\* createSubscription(key, filter) up to its await: transport.subscribe calls
\* SDMobileCore.addListener at once and its promise is already settled, so
\* the continuation is queued. If addListener throws, no native listener is
\* registered and the promise is a rejected one.
createSubscription(m, s, key) ==
    LET e == Len(m.entries) + 1
    IN [m EXCEPT
          !.entries = Append(@, [key |-> key, filter |-> m.subscribers[s].filter,
                                 active |-> ~m.subscribers[s].fails,
                                 failed |-> m.subscribers[s].fails,
                                 unsubCalls |-> 0, lateTeardowns |-> 0, made |-> FALSE,
                                 inFlightAtDestroy |-> FALSE,
                                 listeners |-> {}, order |-> <<>>, registered |-> <<>>,
                                 refCount |-> 0,
                                 cleaned |-> FALSE,
                                 waiters |-> <<>>]),
          !.microtasks = Append(@, [kind |-> "created", e |-> e, s |-> 0])]

\* await of the promise of creation e by subscriber s
awaitEntry(m, s, e) ==
    IF m.entries[e].made
    THEN [m EXCEPT !.microtasks = Append(@, [kind |-> "attach", e |-> e, s |-> s]),
                   !.subscribers[s].entry = e]
    ELSE [m EXCEPT !.entries[e].waiters = Append(@, s),
                   !.subscribers[s].entry = e]

\* subscribe(filter, callback) without the look-up in pendingSubscriptions
subscribeNoPendingCheck(m, s) ==
    LET key == getFilterKey(m.subscribers[s].filter)
        e == m.subscriptions[key]
        created == createSubscription(m, s, key)
    IN IF e # NoEntry
       THEN attachListener([m EXCEPT !.subscribers[s].path = "reused"], s, e)
       ELSE awaitEntry([created EXCEPT !.pendingSubscriptions[key] = Len(created.entries),
                                       !.subscribers[s].st = "awaiting",
                                       !.subscribers[s].path = "created"],
                       s, Len(created.entries))

\* subscribe(filter, callback) called by subscriber s, up to its first await
subscribe(m, s) ==
    LET key == getFilterKey(m.subscribers[s].filter)
        e == m.subscriptions[key]
        pending == m.pendingSubscriptions[key]
        created == createSubscription(m, s, key)
    IN IF e # NoEntry
       THEN attachListener([m EXCEPT !.subscribers[s].path = "reused"], s, e)
       ELSE IF pending # NoEntry
       THEN awaitEntry([m EXCEPT !.subscribers[s].st = "awaiting",
                                 !.subscribers[s].path = "joined"], s, pending)
       ELSE awaitEntry([created EXCEPT !.pendingSubscriptions[key] = Len(created.entries),
                                       !.subscribers[s].st = "awaiting",
                                       !.subscribers[s].path = "created"],
                       s, Len(created.entries))

\* createSubscription after its await: the entry object is built and stored
\* and the promise resolves, or the await throws and the promise rejects; the
\* continuations of those awaiting the promise are queued.
createSubscriptionResume(m, e) ==
    LET waiters == m.entries[e].waiters
        settled == [m EXCEPT
                      !.entries[e].made = TRUE,
                      !.entries[e].waiters = <<>>,
                      !.microtasks = @ \o [i \in 1..Len(waiters) |->
                                             [kind |-> "attach", e |-> e, s |-> waiters[i]]]]
    IN IF m.entries[e].failed
       THEN settled
       ELSE [settled EXCEPT !.subscriptions[m.entries[e].key] = e]

\* subscribe() after "entry = await ..." without the finally block
subscribeResumeKeepsPending(m, s, e) ==
    IF m.entries[e].failed
    THEN [m EXCEPT !.subscribers[s].st = "rejected"]
    ELSE attachListener(m, s, e)

\* subscribe() after "entry = await ...": the listener is attached, or the
\* await throws and subscribe() rejects; the call that created the
\* subscription runs its finally block in both cases.
subscribeResume(m, s, e) ==
    LET resumed == IF m.entries[e].failed
                   THEN [m EXCEPT !.subscribers[s].st = "rejected"]
                   ELSE attachListener(m, s, e)
        key == getFilterKey(m.subscribers[s].filter)
    IN IF m.subscribers[s].path = "created"
       THEN [resumed EXCEPT !.pendingSubscriptions[key] = NoEntry]
       ELSE resumed

\* The unsubscribe handle returned by SDMobileCore.addListener for creation e
unsubscribe(m, e) ==
    [m EXCEPT !.entries[e].active = FALSE, !.entries[e].unsubCalls = @ + 1]

\* The cleanup closure of subscriber s
cleanup(m, s) ==
    LET sub == m.subscribers[s]
        key == getFilterKey(sub.filter)
        currentEntry == m.subscriptions[key]
        m1 == [m EXCEPT !.subscribers[s].hasRun = TRUE]
        m2 == [m1 EXCEPT !.entries[currentEntry].listeners = @ \ {sub.callback},
                         !.entries[currentEntry].order =
                             SelectSeq(@, LAMBDA cb : cb # sub.callback),
                         !.entries[currentEntry].refCount = @ - 1]
    IN IF sub.hasRun THEN m
       ELSE IF m.isDestroying THEN m1
       ELSE IF currentEntry = NoEntry THEN m1
       ELSE IF m.entries[currentEntry].cleaned THEN m1
       ELSE IF m2.entries[currentEntry].refCount = 0
       THEN [m2 EXCEPT !.entries[currentEntry].cleaned = TRUE,
                       !.teardowns = @ \cup {[e |-> currentEntry, key |-> key]}]
       ELSE m2

\* The setTimeout(..., 0) callback without the comparison of the entry in the
\* table with the one the callback was registered for
teardownUnchecked(m, td) ==
    [unsubscribe([m EXCEPT !.teardowns = @ \ {td}], td.e) EXCEPT
        !.subscriptions[td.key] = NoEntry]

\* The setTimeout(..., 0) callback registered by a cleanup closure.
\* History: the callbacks that found another entry, or none, in the table.
teardown(m, td) ==
    LET m1 == [m EXCEPT !.teardowns = @ \ {td}]
    IN IF m.subscriptions[td.key] = td.e
       THEN [unsubscribe(m1, td.e) EXCEPT !.subscriptions[td.key] = NoEntry]
       ELSE [m1 EXCEPT !.entries[td.e].lateTeardowns = @ + 1]

\* The event callback of creation e without the test of the cleaned flag
invokedByIgnoresCleaned(m, e, event) ==
    LET currentEntry == m.subscriptions[m.entries[e].key]
    IN IF /\ currentEntry # NoEntry
          /\ matchesFilter(event, m.entries[e].filter)
       THEN m.entries[currentEntry].listeners
       ELSE {}

\* The callbacks called when the native listener of creation e receives event
invokedBy(m, e, event) ==
    LET currentEntry == m.subscriptions[m.entries[e].key]
    IN IF /\ currentEntry # NoEntry
          /\ ~m.entries[currentEntry].cleaned
          /\ matchesFilter(event, m.entries[e].filter)
       THEN m.entries[currentEntry].listeners
       ELSE {}

\* The core emits an event: every registered native listener runs.
\* History: how often each callback was called, the subscribers whose
\* subscribe() had resolved and whose cleanup closure had not been invoked,
\* and those whose cleanup closure had been invoked.
coreEvent(m, event) ==
    LET active == {e \in 1..Len(m.entries) : m.entries[e].active}
        callbacks == {m.subscribers[s].callback : s \in DOMAIN m.subscribers}
    IN [m EXCEPT !.lastEvent =
          [event |-> event,
           called |-> [cb \in callbacks |->
                         Cardinality({e \in active : cb \in invokedBy(m, e, event)})],
           holders |-> {s \in DOMAIN m.subscribers :
                           m.subscribers[s].st = "subscribed" /\ ~m.subscribers[s].hasRun},
           released |-> {s \in DOMAIN m.subscribers : m.subscribers[s].hasRun}]]

\* listener(event): the callback runs, and what it does with the manager
\* happens inside the call.
listenerCalled(m, callback) ==
    LET s == CHOOSE x \in DOMAIN m.subscribers : m.subscribers[x].callback = callback
        reacts == m.subscribers[s].reacts
    IN IF reacts.kind = "cleanup" /\ m.subscribers[reacts.of].st = "subscribed"
       THEN cleanup(m, reacts.of)
       ELSE IF reacts.kind = "subscribe" /\ m.subscribers[reacts.of].st = "idle"
       THEN subscribe(m, reacts.of)
       ELSE m

\* currentEntry.listeners.forEach((listener) => listener(event)), after the
\* first i members: forEach reads the Set itself at each step, so a member
\* deleted before its turn is not visited and a member added meanwhile is.
\* History: the callbacks called, in order, and whether the Set changed
\* between the start and the end of the enumeration.
RECURSIVE listenersForEach(_, _, _)
listenersForEach(m, currentEntry, i) ==
    LET order == m.entries[currentEntry].order
        callback == order[i + 1]
        noted == [m EXCEPT !.lastEvent.dispatches[Len(m.lastEvent.dispatches)].heard =
                               Append(@, callback)]
        after == listenerCalled(noted, callback)
        later == after.entries[currentEntry].order
        passed == {order[j] : j \in 1..(i + 1)}
        changed == [after EXCEPT !.lastEvent.modified = @ \/ later # order]
    IN IF i >= Len(order) THEN m
       ELSE listenersForEach(changed, currentEntry,
                             Cardinality({j \in 1..Len(later) : later[j] \in passed}))

\* The event callback createSubscription passes to transport.subscribe, for
\* creation e
eventCallback(m, e, event) ==
    LET currentEntry == m.subscriptions[m.entries[e].key]
    IN IF /\ currentEntry # NoEntry
          /\ ~m.entries[currentEntry].cleaned
          /\ matchesFilter(event, m.entries[e].filter)
       THEN listenersForEach(
                [m EXCEPT !.lastEvent.dispatches =
                              Append(@, [entry |-> currentEntry, heard |-> <<>>])],
                currentEntry, 0)
       ELSE m

\* The native listeners es, in the order they were added
RECURSIVE eventCallbacks(_, _, _)
eventCallbacks(m, es, event) ==
    IF es = {} THEN m
    ELSE LET e == CHOOSE x \in es : \A y \in es : x <= y
         IN eventCallbacks(IF m.entries[e].active THEN eventCallback(m, e, event) ELSE m,
                           es \ {e}, event)

\* The core emits an event: every registered native listener runs, and the
\* callbacks act on the manager while they are called.
\* History: the subscribers whose subscribe() had resolved and whose cleanup
\* closure had not been invoked when the event arrived.
coreEventDispatch(m, event) ==
    eventCallbacks([m EXCEPT !.lastEvent =
                       [event |-> event, dispatches |-> <<>>, modified |-> FALSE,
                        holders |-> {s \in DOMAIN m.subscribers :
                                        /\ m.subscribers[s].st = "subscribed"
                                        /\ ~m.subscribers[s].hasRun}]],
                   {e \in 1..Len(m.entries) : m.entries[e].active}, event)

RECURSIVE unsubscribeAll(_, _)
unsubscribeAll(m, es) ==
    IF es = {} THEN m
    ELSE LET e == CHOOSE x \in es : \A y \in es : x <= y
         IN unsubscribeAll(unsubscribe(m, e), es \ {e})

\* destroy() of the manager leaving pendingSubscriptions as it is
destroyManagerKeepsPending(m) ==
    LET stored == {m.subscriptions[k] : k \in DOMAIN m.subscriptions} \ {NoEntry}
        marked == [m EXCEPT !.entries = [e \in DOMAIN @ |->
                      IF e \in stored THEN [@[e] EXCEPT !.cleaned = TRUE] ELSE @[e]]]
    IN [unsubscribeAll(marked, stored) EXCEPT
          !.subscriptions = [k \in DOMAIN @ |-> NoEntry],
          !.isDestroying = FALSE]

\* destroy() of the manager
destroyManager(m) ==
    LET stored == {m.subscriptions[k] : k \in DOMAIN m.subscriptions} \ {NoEntry}
        marked == [m EXCEPT !.entries = [e \in DOMAIN @ |->
                      IF e \in stored THEN [@[e] EXCEPT !.cleaned = TRUE] ELSE @[e]]]
    IN [unsubscribeAll(marked, stored) EXCEPT
          !.subscriptions = [k \in DOMAIN @ |-> NoEntry],
          !.pendingSubscriptions = [k \in DOMAIN @ |-> NoEntry],
          !.isDestroying = FALSE]

\* Filters of the callers: two that differ only in fields left absent, and one
\* that selects an event type.
AnyEvent == EventFilter(None, None, None, None, None)
AnyEventExplicit ==
    EventFilter(None, None, None, Some(JsBoolean(FALSE)), Some(JsArray(<<>>)))
JobEvents == EventFilter(None, None, None, None, Some(JsArray(<<"JobStarted">>)))

Filters == {AnyEvent, AnyEventExplicit, JobEvents}

\* Filters over every field: absent, null or the default, and another value;
\* the string "null" is a path scope that is not null.
KeyFilters ==
    { EventFilter(l, r, p, d, t) :
        l \in {None, Some(Null), Some(JsString("lib"))},
        r \in {None, Some(JsString("file"))},
        p \in {None, Some(Null), Some(JsString("null"))},
        d \in {None, Some(JsBoolean(FALSE)), Some(JsBoolean(TRUE))},
        t \in {None, Some(JsArray(<<>>)), Some(JsArray(<<"JobStarted">>))} }

\* The signatures of the filters a set of caller profiles uses
FilterKeys(callers) ==
    UNION { {getFilterKey(c[i].filter) : i \in DOMAIN c} : c \in callers }
Callbacks == {"onEventA", "onEventB"}
CoreEvents == {"JobStarted", "ResourceChanged"}

\* What a callback does when it is called: nothing with the manager, or it
\* invokes the cleanup closure of a caller, or it makes the subscribe() call
\* of a caller.
NoReaction == [kind |-> "none", of |-> 0]
Reaction(kind, s) == [kind |-> kind, of |-> s]

\* One call of subscribe(filter, callback), before it is made.
NewSubscriber(filter, callback) ==
    [filter |-> filter, callback |-> callback, st |-> "idle", path |-> "", hasRun |-> FALSE,
     fails |-> FALSE, entry |-> NoEntry, reacts |-> NoReaction]

\* The callers checked together: three callers of which two or three share a
\* signature, with different callbacks or with the same one.
SubscriberSets ==
    { c \in [1..MaxSubscribers -> {NewSubscriber(f, cb) : f \in Filters, cb \in Callbacks}] :
        /\ c[1] = NewSubscriber(AnyEvent, "onEventA")
        /\ c[2].filter = AnyEventExplicit
        /\ \A i \in 3..MaxSubscribers :
              c[i] \in {NewSubscriber(JobEvents, "onEventB"),
                        NewSubscriber(AnyEvent, "onEventB")} }

\* The transport is idle while the manager is exercised.
TransportIdle ==
    /\ requestCounter = 0
    /\ pendingRequests = {}
    /\ timers = {}
    /\ batch = <<>>
    /\ batchQueued = FALSE
    /\ flushPending = FALSE
    /\ flights = {}
    /\ lateBridgeCalls = 0
    /\ lateBatchTimers = 0
    /\ promises = <<>>
    /\ calls = <<>>
    /\ wire = <<>>
    /\ sendCount = 0
    /\ turnNo = 0
    /\ turnOpen = FALSE
    /\ healthCheckInterval = FALSE
    /\ currentHealthStatus = "unknown"
    /\ healthListeners = <<>>
    /\ intervalTimers = 0
    /\ lastHealth = NoValue
    /\ destroyed = FALSE

\* new SubscriptionManager(transport), and the calls its callers will make
InitSubWith(callers) ==
    /\ TransportIdle
    /\ subscriptions = [k \in FilterKeys(callers) |-> NoEntry]
    /\ pendingSubscriptions = [k \in FilterKeys(callers) |-> NoEntry]
    /\ isDestroying = FALSE
    /\ entries = <<>>
    /\ microtasks = <<>>
    /\ teardowns = {}
    /\ subscribers \in callers
    /\ lastEvent = NoValue

InitSub == InitSubWith(SubscriberSets)

\* A caller calls subscribe(filter, callback).
Subscribe(s) ==
    /\ subscribers[s].st = "idle"
    /\ ManagerBecomes(subscribe(ManagerCur, s))

\* The next continuation runs.
RunMicrotask ==
    /\ microtasks # <<>>
    /\ LET task == Head(microtasks)
           m == [ManagerCur EXCEPT !.microtasks = Tail(@)]
       IN IF task.kind = "created"
          THEN ManagerBecomes(createSubscriptionResume(m, task.e))
          ELSE ManagerBecomes(subscribeResume(m, task.s, task.e))

\* A caller invokes the cleanup closure subscribe() returned to it.
Cleanup(s) ==
    /\ subscribers[s].st = "subscribed"
    /\ ManagerBecomes(cleanup(ManagerCur, s))

\* A deferred teardown callback runs.
Teardown(td) ==
    /\ microtasks = <<>>
    /\ td \in teardowns
    /\ ManagerBecomes(teardown(ManagerCur, td))

\* The core emits an event.
CoreEvent(event) ==
    /\ microtasks = <<>>
    /\ ManagerBecomes(coreEvent(ManagerCur, event))

\* The application calls destroy() of the manager.
DestroyManager ==
    ManagerBecomes(destroyManager(ManagerCur))

NextSub ==
    \/ \E s \in DOMAIN subscribers : Subscribe(s)
    \/ RunMicrotask
    \/ \E s \in DOMAIN subscribers : Cleanup(s)
    \/ \E td \in teardowns : Teardown(td)
    \/ \E event \in CoreEvents : CoreEvent(event)

SpecSub == InitSub /\ [][NextSub]_vars

NextSubDestroy ==
    \/ NextSub
    \/ DestroyManager

\* With destroy(), the callers use different callbacks.
DestroySubscriberSets ==
    {c \in SubscriberSets : c[2].callback = "onEventB"}

InitSubDestroy == InitSubWith(DestroySubscriberSets)

SpecSubDestroy == InitSubDestroy /\ [][NextSubDestroy]_vars

\* History: the creations whose promise is not settled at this moment
noteInFlight(m) ==
    [m EXCEPT !.entries = [e \in DOMAIN @ |->
        IF ~@[e].made THEN [@[e] EXCEPT !.inFlightAtDestroy = TRUE] ELSE @[e]]]

\* The application calls destroy() of the manager; the creations in flight
\* are noted.
DestroyManagerInFlight ==
    ManagerBecomes(destroyManager(noteInFlight(ManagerCur)))

\* subscribe(), cleanup, deferred teardown and destroy(), without events
NextSubInFlight ==
    \/ \E s \in DOMAIN subscribers : Subscribe(s)
    \/ RunMicrotask
    \/ \E s \in DOMAIN subscribers : Cleanup(s)
    \/ \E td \in teardowns : Teardown(td)
    \/ DestroyManagerInFlight

SpecSubInFlight == InitSubDestroy /\ [][NextSubInFlight]_vars

\* The call of SDMobileCore.addListener made for a caller may throw.
FailingSubscriberSets ==
    { [i \in 1..MaxSubscribers |-> [c[i] EXCEPT !.fails = fails[i]]] :
        c \in {d \in SubscriberSets : d[MaxSubscribers].filter = AnyEvent},
        fails \in {f \in [1..MaxSubscribers -> BOOLEAN] : \E i \in DOMAIN f : f[i]} }

InitSubFail == InitSubWith(FailingSubscriberSets)

SpecSubFail == InitSubFail /\ [][NextSub]_vars

\* Two callers subscribe, the first with any filter and the second with one
\* of a few: every field absent, every field at its default, and others.
KeySubscriberSets ==
    { <<NewSubscriber(f, "onEventA"), NewSubscriber(g, "onEventB")>> :
        f \in KeyFilters,
        g \in { AnyEvent,
                EventFilter(Some(Null), None, Some(Null), Some(JsBoolean(FALSE)),
                            Some(JsArray(<<>>))),
                EventFilter(None, None, Some(JsString("null")), None, None),
                EventFilter(Some(JsString("lib")), Some(JsString("file")), None,
                            Some(JsBoolean(TRUE)), Some(JsArray(<<"JobStarted">>))),
                JobEvents } }

InitKey == InitSubWith(KeySubscriberSets)

NextKey ==
    \/ \E s \in DOMAIN subscribers : Subscribe(s)
    \/ RunMicrotask

SpecKey == InitKey /\ [][NextKey]_vars

\* Three callers with one signature and a callback each; the callback of the
\* first invokes its own cleanup closure or that of the second, or makes the
\* subscribe() call of the third.
ReentrantSubscriberSets ==
    { <<[NewSubscriber(AnyEvent, "onEventA") EXCEPT !.reacts = r],
        NewSubscriber(AnyEvent, "onEventB"),
        NewSubscriber(AnyEvent, "onEventC")>> :
        r \in {Reaction("cleanup", 1), Reaction("cleanup", 2), Reaction("subscribe", 3)} }

InitSubReentrant == InitSubWith(ReentrantSubscriberSets)

\* The core emits an event to callbacks that call the manager.
CoreEventDispatch(event) ==
    /\ microtasks = <<>>
    /\ ManagerBecomes(coreEventDispatch(ManagerCur, event))

NextSubReentrant ==
    \/ \E s \in DOMAIN subscribers : Subscribe(s)
    \/ RunMicrotask
    \/ \E s \in DOMAIN subscribers : Cleanup(s)
    \/ \E td \in teardowns : Teardown(td)
    \/ \E event \in CoreEvents : CoreEventDispatch(event)

SpecSubReentrant == InitSubReentrant /\ [][NextSubReentrant]_vars

\* Four callers with one signature, three of them with the same callback;
\* the callbacks do nothing with the manager.
OrderSubscriberSets ==
    { <<NewSubscriber(AnyEvent, "onEventA"), NewSubscriber(AnyEvent, "onEventA"),
        NewSubscriber(AnyEvent, "onEventB"), NewSubscriber(AnyEvent, "onEventA")>> }

InitSubOrder == InitSubWith(OrderSubscriberSets)

SpecSubOrder == InitSubOrder /\ [][NextSubReentrant]_vars

----------------------------------------------------------------------------
(* Properties *)

Ids == DOMAIN promises
Callers == DOMAIN calls

\* C1: whatever the order of response delivery (duplicates included),
\* per-request timeout and batch failure, the promise of a request identifier
\* is settled at most once, the one that settles it removes the pending entry,
\* and an entry still in the table belongs to an unsettled promise.
C1_SettledAtMostOnce ==
    \A id \in Ids :
        /\ promises[id].settles <= 1
        /\ promises[id].settles = 1 =>
              id \notin pendingRequests /\ promises[id].out # "pending"
        /\ id \in pendingRequests =>
              promises[id].settles = 0 /\ promises[id].out = "pending"

\* A request was resolved and a later delivery for its identifier found no entry.
C1_Witness ==
    \E id \in Ids :
        promises[id].out = "resolved" /\ promises[id].settles = 1 /\ promises[id].late

\* C2: an attempt whose timer fired while its entry existed is rejected with a
\* TIMEOUT error carrying its method and timeout value, its entry is gone, and
\* this stays so whatever response or batch failure arrives afterwards.
C2_TimeoutIsFinal ==
    \A id \in Ids :
        promises[id].timedOut =>
            LET call == calls[promises[id].c]
            IN /\ id \notin pendingRequests
               /\ promises[id].out = "rejected"
               /\ promises[id].settles = 1
               /\ promises[id].val.errorType = "TIMEOUT"
               /\ promises[id].val.method = call.method
               /\ promises[id].val.timeout = effectiveTimeout(call.method, call.opts.timeout)
               /\ call.st \in {"sleeping", "rejected"}
               /\ call.lastError = promises[id].val

\* An attempt timed out and a response, or the failure of its batch, came later.
C2_Witness ==
    \E id \in Ids : promises[id].timedOut /\ promises[id].late

BatchIds == {batch[i].id : i \in 1..Len(batch)}

\* C3 as claimed: the requests enqueued in one scheduling turn (the window of
\* one zero-delay flush timer) go out in exactly one bridge call, the one that
\* flush makes, which holds exactly those requests, in enqueue order.
C3_OneCallPerTurn ==
    \A i, j \in Ids :
        /\ wire[i].sends <= 1
        /\ wire[i].call # 0 => wire[i].call = wire[i].flush
        /\ (wire[i].call # 0 /\ wire[i].flush = wire[j].flush) =>
              wire[j].call = wire[i].call
        /\ (wire[i].call # 0 /\ wire[i].call = wire[j].call /\ i < j) =>
              wire[i].pos < wire[j].pos

\* What does hold of the batches: every request is handed to the bridge at
\* most once; an unsent request is still in the batch; the requests of one
\* run-to-completion turn are never split, and go out in enqueue order.
TurnSentTogether ==
    /\ \A i \in Ids :
          /\ wire[i].sends <= 1
          /\ (wire[i].call = 0) <=> (i \in BatchIds)
          /\ (wire[i].call = 0) <=> (wire[i].sends = 0)
    /\ \A i, j \in Ids :
          /\ wire[i].turn = wire[j].turn => wire[i].call = wire[j].call
          /\ (wire[i].call # 0 /\ wire[i].call = wire[j].call /\ i < j) =>
                wire[i].pos < wire[j].pos
    /\ \A f \in flights :
          \A k \in 1..Len(f.reqs) :
              wire[f.reqs[k].id].call = f.call /\ wire[f.reqs[k].id].pos = k

\* C4 as claimed: a request enqueued at any time, in particular while the
\* bridge call of a flush is in flight, is not in the batch in flight and has
\* the next flush scheduled, so that no further request() is needed to send it.
C4_EnqueueSchedulesFlush ==
    /\ \A f \in flights : \A k \in 1..Len(f.reqs) : f.reqs[k].id \notin BatchIds
    /\ batch # <<>> => flushPending

\* C5 as claimed: at most one sendMessage call is outstanding, the calls
\* abandoned by their batch timeout included.
C5_OneBridgeCallAtATime ==
    Cardinality(flights) + lateBridgeCalls <= 1

\* C6: a promise settled from a response is settled with the result or the
\* error of the envelope that carries its own identifier.
C6_OwnEnvelope ==
    \A id \in Ids :
        /\ promises[id].out = "resolved" => promises[id].val = ResultFor(id)
        /\ (promises[id].out = "rejected" /\ promises[id].val # NoValue
              /\ promises[id].val.message \in {MessageFor(k) : k \in Ids}) =>
              promises[id].val.message = MessageFor(id)

\* Two requests of one bridge call were answered in the reverse of the order
\* in which they were sent, one with a result and one with an error.
C6_Witness ==
    \E i, j \in Ids :
        /\ wire[i].call # 0 /\ wire[i].call = wire[j].call
        /\ wire[i].pos < wire[j].pos
        /\ wire[i].rpos > wire[j].rpos /\ wire[j].rpos > 0
        /\ promises[i].out = "resolved" /\ promises[i].val = ResultFor(i)
        /\ promises[j].out = "rejected" /\ promises[j].val # NoValue
        /\ promises[j].val.message = MessageFor(j)

\* The error kinds the retry policy is documented never to retry
NonRetryableKinds ==
    {"INVALID_REQUEST", "INVALID_METHOD", "INVALID_LIBRARY_ID",
     "LIBRARY_NOT_FOUND", "SECURITY_ERROR", "VALIDATION_ERROR"}

RetryEnabled(c) == ~calls[c].opts.retryOff
MaxRetriesOf(c) == mergeRetryConfig(calls[c].opts.retry).maxRetries

\* C7: with retry enabled and maxRetries = N, request() never makes more than
\* N + 1 attempts, and when it rejects with a retryable error (every attempt
\* failed retryably) it has made exactly N + 1.
C7_AttemptsExactlyNPlusOne ==
    \A c \in Callers :
        RetryEnabled(c) =>
            /\ calls[c].attempts <= MaxRetriesOf(c) + 1
            /\ (calls[c].st = "rejected"
                  /\ calls[c].thrown.errorType \notin NonRetryableKinds) =>
                  calls[c].attempts = MaxRetriesOf(c) + 1

\* A request with the default configuration (maxRetries 3) rejected after its
\* fourth attempt.
C7_Witness ==
    \E c \in Callers :
        /\ RetryEnabled(c) /\ calls[c].opts.retry = NoOverride
        /\ calls[c].st = "rejected" /\ calls[c].attempts = 4
        /\ calls[c].thrown.errorType \notin NonRetryableKinds

\* C8: after a failure of a non-retryable kind request() has rejected and
\* makes no further attempt; a failure of any other kind is not the end while
\* retry is enabled and attempts remain.
C8_OnlyRetryableRetried ==
    \A c \in Callers :
        calls[c].lastError # NoValue =>
            /\ calls[c].lastError.errorType \in NonRetryableKinds =>
                  calls[c].st = "rejected" /\ calls[c].thrown = calls[c].lastError
            /\ (RetryEnabled(c) /\ calls[c].st = "rejected"
                  /\ calls[c].attempts < MaxRetriesOf(c) + 1) =>
                  calls[c].lastError.errorType \in NonRetryableKinds

\* A request was retried after a batch failure and then rejected by a security
\* error on its second attempt, with attempts left.
C8_Witness ==
    \E c \in Callers :
        /\ RetryEnabled(c) /\ MaxRetriesOf(c) >= 2
        /\ calls[c].st = "rejected" /\ calls[c].attempts = 2
        /\ calls[c].lastError.errorType = "SECURITY_ERROR"

CappedExponential(c, attempt) ==
    LET config == mergeRetryConfig(calls[c].opts.retry)
        exponential == config.baseDelayMs * Pow(config.backoffMultiplier, attempt)
    IN IF exponential <= config.maxDelayMs THEN exponential ELSE config.maxDelayMs

\* delays[k] is the delay waited after attempt k - 1, in 1 / DelayScale ms.
DelayWithinBounds(c, k) ==
    /\ 10 * calls[c].delays[k] <=
          12 * mergeRetryConfig(calls[c].opts.retry).maxDelayMs * DelayScale
    /\ 10 * calls[c].delays[k] >= 11 * CappedExponential(c, k - 1) * DelayScale

\* C9 as claimed: the delays between successive attempts never decrease, and
\* each lies between 1.1 times the capped exponential value and 1.2 * maxDelay.
C9_DelaysNonDecreasing ==
    \A c \in Callers :
        \A k \in 1..Len(calls[c].delays) :
            /\ DelayWithinBounds(c, k)
            /\ k < Len(calls[c].delays) => calls[c].delays[k] <= calls[c].delays[k + 1]

\* C9, amended: each delay lies between 1.1 times and 1.2 times the capped
\* exponential value of its attempt, so is at most 1.2 * maxDelay; a delay is
\* not smaller than the one before when the capped value grew by 12/11 or
\* more, as at every retry of the default configuration.
C9_DelayBounds ==
    \A c \in Callers :
        \A k \in 1..Len(calls[c].delays) :
            /\ DelayWithinBounds(c, k)
            /\ 10 * calls[c].delays[k] < 12 * CappedExponential(c, k - 1) * DelayScale
            /\ (k < Len(calls[c].delays)
                  /\ 11 * CappedExponential(c, k) >= 12 * CappedExponential(c, k - 1)) =>
                  calls[c].delays[k] <= calls[c].delays[k + 1]
            /\ (k < Len(calls[c].delays) /\ calls[c].opts.retry = NoOverride) =>
                  calls[c].delays[k] <= calls[c].delays[k + 1]

\* A second delay smaller than the first: the capped value stayed the same and
\* the jitter differed.
C9_Witness ==
    \E c \in Callers :
        /\ Len(calls[c].delays) >= 2
        /\ calls[c].delays[2] < calls[c].delays[1]
        /\ CappedExponential(c, 1) = CappedExponential(c, 0)

\* C10: with retry: false, request() makes one attempt, never waits for a
\* retry, and rejects with the error of that attempt.
C10_RetryFalseOneAttempt ==
    \A c \in Callers :
        calls[c].opts.retryOff =>
            /\ calls[c].attempts <= 1
            /\ calls[c].st # "sleeping"
            /\ (calls[c].cur # NoId /\ promises[calls[c].cur].out = "rejected") =>
                  /\ calls[c].st = "rejected"
                  /\ calls[c].attempts = 1
                  /\ calls[c].thrown = promises[calls[c].cur].val

\* A request with retry: false rejected by a retryable error (a timeout).
C10_Witness ==
    \E c \in Callers :
        /\ calls[c].opts.retryOff
        /\ calls[c].st = "rejected"
        /\ calls[c].thrown.errorType = "TIMEOUT"

\* C11: when request() has given up, the error thrown to the caller is the
\* rejection value of the last attempt made (kind, message and details),
\* and no attempt was made after it.
C11_LastErrorUnchanged ==
    \A c \in Callers :
        calls[c].st = "rejected" =>
            /\ calls[c].cur # NoId
            /\ \A id \in Ids : promises[id].c = c => id <= calls[c].cur
            /\ promises[calls[c].cur].out = "rejected"
            /\ calls[c].thrown = promises[calls[c].cur].val

\* A request retried after a retryable failure gave up on a validation error
\* of its second attempt.
C11_Witness ==
    \E c \in Callers :
        /\ calls[c].st = "rejected" /\ calls[c].attempts = 2
        /\ calls[c].thrown.errorType = "VALIDATION_ERROR"
        /\ calls[c].thrown.message = MessageFor(calls[c].cur)

\* C12: a request of a batch whose bridge call threw, or whose batch timeout
\* elapsed, while its entry was pending is rejected with the kind of that
\* failure and a message naming its own method, and its entry is removed; no
\* other request carries a batch error, and what was settled stays settled once.
C12_BatchFailureRejectsPending ==
    \A id \in Ids :
        LET p == promises[id]
            method == calls[p.c].method
        IN /\ wire[id].fail # NoKind =>
                 /\ id \notin pendingRequests
                 /\ p.out = "rejected" /\ p.settles = 1
                 /\ p.val.errorType = wire[id].fail
                 /\ wire[id].fail \in {"BATCH_FAILED", "BATCH_TIMEOUT"}
                 /\ p.val.message.method = method
           /\ (p.val # NoValue /\ p.out = "rejected"
                 /\ p.val.errorType \in {"BATCH_FAILED", "BATCH_TIMEOUT"}) =>
                 wire[id].fail = p.val.errorType
           /\ \A f \in flights : wire[id].fail # NoKind => wire[id].call # f.call

\* A bridge call that carried two requests threw after one of them had timed
\* out: the other, still pending, was rejected with BATCH_FAILED, and a request
\* enqueued since the snapshot is still pending.
C12_Witness ==
    \E i, j, k \in Ids :
        /\ i # j /\ wire[i].call # 0 /\ wire[i].call = wire[j].call
        /\ wire[i].fail = "BATCH_FAILED"
        /\ wire[j].fail = NoKind /\ promises[j].out = "rejected"
        /\ k \in pendingRequests /\ wire[k].call # wire[i].call

\* The messages of the core's error envelopes
CoreMessages == {MessageFor(k) : k \in Ids}

\* C13: a request is rejected with an error of the core only by an error
\* envelope carrying its own identifier; a sibling of the same bridge call
\* answered with a result is resolved with that result, and a sibling with no
\* envelope is not settled by the response (it stays pending until its own
\* timer or a batch failure).
C13_ErrorEnvelopeHitsOnlyItsRequest ==
    \A id \in Ids :
        LET p == promises[id]
        IN /\ wire[id].rpos = 0 =>
                 /\ p.out # "resolved"
                 /\ p.val # NoValue => p.val.message \notin CoreMessages
                 /\ p.val # NoValue => p.val.errorType \in {"TIMEOUT", "BATCH_FAILED", "BATCH_TIMEOUT"}
           /\ (wire[id].rpos > 0 /\ wire[id].rerr = NoError) =>
                 p.out = "resolved" /\ p.val = ResultFor(id)
           /\ (wire[id].rpos > 0 /\ wire[id].rerr # NoError) =>
                 /\ p.out = "rejected"
                 /\ p.val.message = MessageFor(id)
                 /\ p.val.errorType = responseErrorType(wire[id].rerr)

\* A bridge call carried two requests and returned an error envelope for the
\* first only: the first is rejected, the second is still pending.
C13_Witness ==
    \E i, j \in Ids :
        /\ i # j /\ wire[i].call # 0 /\ wire[i].call = wire[j].call
        /\ \A f \in flights : f.call # wire[i].call
        /\ wire[i].rpos > 0 /\ wire[i].rerr = "VALIDATION_ERROR"
        /\ promises[i].out = "rejected"
        /\ j \in pendingRequests /\ promises[j].out = "pending"

\* C14 as claimed: once destroy() has been called, with the application
\* making no new call, the pending table and the batch are empty and stay
\* empty, no per-request timer is armed, the health check interval is stopped
\* and nothing more is handed to the bridge.
C14_DestroyLeavesNothingBehind ==
    destroyed =>
        /\ pendingRequests = {}
        /\ batch = <<>>
        /\ timers = {}
        /\ ~healthCheckInterval
        /\ healthListeners = <<>>

\* What does hold of destroy(): every entry that was pending when it was
\* called has its timer cancelled and its promise left unsettled for good,
\* and the health check interval stays stopped.
DestroyCancelsPending ==
    destroyed =>
        /\ ~healthCheckInterval
        /\ healthListeners = <<>>
        /\ timers = pendingRequests
        /\ \A id \in Ids :
              (promises[id].out = "pending" /\ id \notin pendingRequests) =>
                  id \notin timers

\* C15 as claimed: the per-request timer of a resolved request, the timeout
\* of a health probe that succeeded, and the batch timer of a bridge call that
\* returned successfully are no longer armed.
C15_TimersCancelledOnSuccess ==
    /\ \A id \in Ids : promises[id].out = "resolved" => id \notin timers
    /\ \A c \in Probes : calls[c].st = "resolved" => calls[c].cur \notin timers
    /\ lateBatchTimers = 0

\* What does hold of the timers: no timer of a settled request or probe is
\* armed, and every pending entry has its timer armed.
RequestTimersCancelled ==
    /\ \A id \in Ids : promises[id].out # "pending" => id \notin timers
    /\ \A c \in Probes : calls[c].st = "resolved" =>
          calls[c].cur \notin timers /\ currentHealthStatus \in {"healthy", "unhealthy"}
    /\ pendingRequests = timers

KeyOf(s) == getFilterKey(subscribers[s].filter)
Subscribers == DOMAIN subscribers
Creations == DOMAIN entries

\* C16: subscribe() calls with one signature made while the subscription is
\* being created share one call of the transport's event primitive (a further
\* one is made only after the earlier one was unsubscribed), and as long as no
\* cleanup closure of that signature has been invoked every callback attached
\* to it is called with every matching event.
C16_ConcurrentSubscribeSharesOne ==
    /\ \A e1, e2 \in Creations :
          (e1 < e2 /\ entries[e1].key = entries[e2].key) => ~entries[e1].active
    /\ \A s \in Subscribers :
          subscribers[s].st # "idle" =>
              \E e \in Creations : entries[e].key = KeyOf(s)
    /\ lastEvent # NoValue =>
          \A s \in lastEvent.holders :
              (/\ matchesFilter(lastEvent.event, subscribers[s].filter)
               /\ \A r \in lastEvent.released : KeyOf(r) # KeyOf(s)) =>
                  lastEvent.called[subscribers[s].callback] >= 1

\* Two callers with different filters of one signature subscribed while the
\* subscription was being created; one native listener exists and an event
\* reached both callbacks.
C16_Witness ==
    /\ lastEvent # NoValue
    /\ subscribers[1].path = "created" /\ subscribers[2].path = "joined"
    /\ subscribers[1].filter # subscribers[2].filter /\ KeyOf(1) = KeyOf(2)
    /\ subscribers[1].callback # subscribers[2].callback
    /\ {1, 2} \subseteq lastEvent.holders
    /\ lastEvent.called[subscribers[1].callback] = 1
    /\ lastEvent.called[subscribers[2].callback] = 1
    /\ Cardinality({e \in Creations : entries[e].key = KeyOf(1)}) = 1

\* C17 as claimed: while a teardown is deferred the native listener is still
\* registered; a subscribe() that finds the entry of its signature makes no
\* new call of the event primitive, and the subscription it joins stays live
\* for it: stored, not retired, not unsubscribed.
C17_ResubscribeKeepsSubscription ==
    /\ \A td \in teardowns :
          subscriptions[td.key] = td.e => entries[td.e].active
    /\ \A s \in Subscribers :
          (subscribers[s].path = "reused" /\ subscribers[s].st = "subscribed"
             /\ ~subscribers[s].hasRun) =>
              LET e == subscriptions[KeyOf(s)]
              IN /\ e # NoEntry
                 /\ entries[e].active /\ entries[e].unsubCalls = 0
                 /\ ~entries[e].cleaned

\* C18 as claimed: while a caller whose subscribe() has resolved has not
\* invoked its cleanup closure, the entry of its signature is stored and not
\* retired, its unsubscribe handle has not been called, and the caller's
\* callback is called with every matching event.
C18_NoPrematureUnsubscription ==
    /\ \A s \in Subscribers :
          (subscribers[s].st = "subscribed" /\ ~subscribers[s].hasRun) =>
              LET e == subscriptions[KeyOf(s)]
              IN /\ e # NoEntry
                 /\ ~entries[e].cleaned
                 /\ entries[e].active /\ entries[e].unsubCalls = 0
    /\ lastEvent # NoValue =>
          \A s \in lastEvent.holders :
              matchesFilter(lastEvent.event, subscribers[s].filter) =>
                  lastEvent.called[subscribers[s].callback] >= 1

\* C20 as claimed: the reference count of a stored entry that is not retired
\* equals the size of its listener set.
C20_RefCountIsListenerCount ==
    \A k \in DOMAIN subscriptions :
        LET e == subscriptions[k]
        IN (e # NoEntry /\ ~entries[e].cleaned) =>
              entries[e].refCount = Cardinality(entries[e].listeners)

TablesEmpty ==
    /\ \A k \in DOMAIN subscriptions : subscriptions[k] = NoEntry
    /\ \A k \in DOMAIN pendingSubscriptions : pendingSubscriptions[k] = NoEntry

\* C19: every destroy() of the manager ends with the subscription table and
\* the table of creations in flight empty and the destroying flag false, and
\* a destroy() called when both tables are already empty, as they are after
\* a first destroy(), calls no unsubscribe handle and changes nothing.
C19_DestroyEmptiesTables ==
    [][DestroyManager =>
          /\ TablesEmpty' /\ ~isDestroying'
          /\ TablesEmpty => UNCHANGED vars]_vars

\* destroy() was called while one subscription had a listener that never
\* invoked its cleanup and another creation was in flight: the entry was
\* unsubscribed once, and the creation is no longer in the table.
C19_Witness ==
    /\ TablesEmpty /\ ~isDestroying
    /\ \A s \in Subscribers : ~subscribers[s].hasRun
    /\ \E e \in Creations :
          /\ entries[e].cleaned /\ ~entries[e].active
          /\ entries[e].unsubCalls = 1 /\ entries[e].listeners # {}
    /\ \E s \in Subscribers :
          subscribers[s].st = "awaiting" /\ subscribers[s].path = "created"

\* C21 as claimed: the first invocation of a cleanup closure lowers the
\* reference count of the entry of its signature by one and leaves its
\* callback out of the listener set, and every later invocation of the same
\* closure changes nothing.
C21_CleanupIdempotent ==
    [][\A s \in Subscribers :
          Cleanup(s) =>
              IF subscribers[s].hasRun
              THEN UNCHANGED vars
              ELSE LET e == subscriptions[KeyOf(s)]
                   IN /\ e # NoEntry
                      /\ entries'[e].refCount = entries[e].refCount - 1
                      /\ subscribers[s].callback \notin entries'[e].listeners]_vars

\* Every invocation of a cleanup closure after the first changes nothing.
CleanupRunsOnce ==
    [][\A s \in Subscribers :
          (Cleanup(s) /\ subscribers[s].hasRun) => UNCHANGED vars]_vars

\* The event type is in the allow-list of the filter, or the filter has no
\* allow-list or an empty one.
Allowed(event, filter) ==
    \/ ~filter.event_types.some
    \/ filter.event_types.v = JsArray(<<>>)
    \/ event \in {filter.event_types.v.array[i] :
                     i \in 1..Len(filter.event_types.v.array)}

\* C22: when the core emits an event, a callback is called if and only if it
\* is in the listener set of an entry that is in the table, is not retired,
\* whose physical subscription is registered and whose filter allows the
\* event; so every listener of such an entry is called.
C22_DispatchIffLiveAndMatching ==
    [][\A event \in CoreEvents :
          CoreEvent(event) =>
              \A cb \in Callbacks :
                  lastEvent'.called[cb] >= 1 <=>
                      \E k \in DOMAIN subscriptions :
                          LET e == subscriptions[k]
                          IN /\ e # NoEntry
                             /\ entries[e].active
                             /\ ~entries[e].cleaned
                             /\ Allowed(event, entries[e].filter)
                             /\ cb \in entries[e].listeners]_vars

\* An event reached the listener of an entry whose filter allows every event
\* and not the listener of a live entry whose allow-list lacks it.
C22_Witness ==
    /\ lastEvent # NoValue
    /\ lastEvent.event = "ResourceChanged"
    /\ lastEvent.called["onEventA"] = 1 /\ lastEvent.called["onEventB"] = 0
    /\ \E s \in lastEvent.holders :
          /\ subscribers[s].callback = "onEventB"
          /\ subscribers[s].filter = JobEvents
          /\ subscriptions[KeyOf(s)] # NoEntry
          /\ ~entries[subscriptions[KeyOf(s)]].cleaned

\* C23: startHealthCheck() called while no check is running issues one probe
\* and arms one periodic timer, each run of the periodic callback issues one
\* probe, startHealthCheck() called while checks are running changes nothing,
\* and at most one periodic timer is armed at any time: the one of the
\* stored handle.
C23_StartHealthCheckIdempotent ==
    /\ [](intervalTimers <= 1 /\ (healthCheckInterval <=> intervalTimers = 1))
    /\ [][/\ StartHealthCheck =>
               IF healthCheckInterval
               THEN UNCHANGED vars
               ELSE /\ requestCounter' = requestCounter + 1
                    /\ Len(batch') = Len(batch) + 1
                    /\ intervalTimers' = 1
           /\ HealthTick =>
               /\ requestCounter' = requestCounter + 1
               /\ Len(batch') = Len(batch) + 1
               /\ intervalTimers' = intervalTimers]_vars

\* Checks are running on one periodic timer and two probes have been issued.
C23_Witness ==
    /\ healthCheckInterval /\ intervalTimers = 1
    /\ \A c \in Probes : calls[c].attempts = 1
    /\ requestCounter = 2

\* The status a completed health check reports
OutcomeOf(st) == IF st = "resolved" THEN "healthy" ELSE "unhealthy"

\* C24: when health checks complete, the stored status is the outcome of the
\* check completed last (and the previous status is the one stored before,
\* when one check completes alone); the registered listeners are all called
\* when the status differs from the previous one or is unhealthy, and none
\* is called for a healthy result that follows a healthy status.
C24_NotifyOnChangeOrUnhealthy ==
    /\ [](lastHealth # NoValue =>
            /\ currentHealthStatus = lastHealth.status
            /\ lastHealth.heard =
                  IF lastHealth.previous # lastHealth.status
                        \/ lastHealth.status = "unhealthy"
                  THEN lastHealth.registered
                  ELSE <<>>)
    /\ [][LET done == {c \in Probes : /\ calls'[c].st # calls[c].st
                                       /\ calls'[c].st \in {"resolved", "rejected"}}
          IN done # {} =>
                /\ \E c \in done : currentHealthStatus' = OutcomeOf(calls'[c].st)
                /\ Cardinality(done) = 1 =>
                      lastHealth'.previous = currentHealthStatus]_vars

\* A healthy result followed a healthy status while listeners were
\* registered, and none of them was called.
C24_Witness ==
    /\ lastHealth # NoValue
    /\ lastHealth.previous = "healthy" /\ lastHealth.status = "healthy"
    /\ Len(lastHealth.registered) = 2
    /\ lastHealth.heard = <<>>
    /\ \A c \in Probes : calls[c].st = "resolved"

\* C25: when a health notification is broadcast, every listener registered
\* at that moment is called, those after a listener that throws included,
\* and the stored status is the one broadcast.
C25_ThrowingListenerIsolated ==
    (lastHealth # NoValue /\ lastHealth.heard # <<>>) =>
        /\ \A i \in DOMAIN lastHealth.registered :
              \E j \in DOMAIN lastHealth.heard :
                  lastHealth.heard[j] = lastHealth.registered[i]
        /\ currentHealthStatus = lastHealth.status

\* A notification was broadcast to a listener that throws and then to the
\* listener registered after it.
C25_Witness ==
    /\ lastHealth # NoValue
    /\ lastHealth.registered = <<"throwingListener", "listener">>
    /\ lastHealth.heard = <<"throwingListener", "listener">>
    /\ throws(lastHealth.heard[1])
    /\ currentHealthStatus = lastHealth.status

\* C26: the request counter moves only when a health check starts, and then
\* by one, so a check enqueues one request and a failed or timed-out probe
\* is not attempted again; the request is query:core.ping with a timeout of
\* 5000 ms, below the default; a probe whose request failed returns an
\* unhealthy result, and performHealthCheck throws nothing.
C26_ProbeIsSingleAttempt ==
    /\ [](/\ HEALTH_CHECK_TIMEOUT_MS = 5000
          /\ HEALTH_CHECK_TIMEOUT_MS < DEFAULT_TIMEOUT_MS
          /\ \A i \in DOMAIN batch : batch[i].method = "query:core.ping"
          /\ \A c \in Probes :
                /\ calls[c].thrown = NoValue
                /\ calls[c].st = "resolved" => calls[c].result.status = "healthy"
                /\ calls[c].st = "rejected" => calls[c].result.status = "unhealthy"
                /\ (calls[c].st = "rejected" /\ calls[c].lastError.errorType = "TIMEOUT") =>
                      calls[c].lastError.timeout = HEALTH_CHECK_TIMEOUT_MS)
    /\ [][requestCounter' # requestCounter =>
              /\ requestCounter' = requestCounter + 1
              /\ StartHealthCheck \/ HealthTick]_vars

\* A probe timed out after 5000 ms and returned an unhealthy result, and no
\* further request was made for it.
C26_Witness ==
    \E c \in Probes :
        /\ calls[c].st = "rejected"
        /\ calls[c].lastError.errorType = "TIMEOUT"
        /\ calls[c].lastError.timeout = 5000
        /\ calls[c].result.status = "unhealthy"
        /\ calls[c].attempts = 1 /\ calls[c].cur = requestCounter
        /\ currentHealthStatus = "unhealthy"

\* The subscribe() call that started creation e
CreatorOf(e) ==
    CHOOSE s \in Subscribers : subscribers[s].entry = e /\ subscribers[s].path = "created"

\* C27: a subscribe() call that awaited a creation is rejected, once its
\* continuation has run, exactly if that creation failed; a failed creation
\* is never stored in the table, and when the call that started it has
\* rejected its in-flight marker is gone; creations are started by
\* subscribe() calls only, one each; and a subscribe() that finds neither an
\* entry nor a marker for its signature starts a creation of its own.
C27_FailedCreationLeavesNothing ==
    /\ [](/\ \A s \in Subscribers :
                LET e == subscribers[s].entry
                IN /\ subscribers[s].st = "rejected" => (e # NoEntry /\ entries[e].failed)
                   /\ subscribers[s].st = "subscribed" => ~entries[e].failed
          /\ \A k \in DOMAIN subscriptions :
                subscriptions[k] # NoEntry => ~entries[subscriptions[k]].failed
          /\ \A e \in Creations :
                (entries[e].failed /\ subscribers[CreatorOf(e)].st = "rejected") =>
                    /\ pendingSubscriptions[entries[e].key] # e
                    /\ subscriptions[entries[e].key] # e
                    /\ ~entries[e].active /\ entries[e].listeners = {}
          /\ Len(entries) = Cardinality({s \in Subscribers : subscribers[s].path = "created"}))
    /\ [][\A s \in Subscribers :
              (/\ Subscribe(s)
               /\ subscriptions[KeyOf(s)] = NoEntry
               /\ pendingSubscriptions[KeyOf(s)] = NoEntry) =>
                  /\ subscribers'[s].path = "created"
                  /\ Len(entries') = Len(entries) + 1
                  /\ subscribers'[s].entry = Len(entries')]_vars

\* A creation failed; the call that started it and a call that joined it
\* were rejected, and a later call with the same signature started a second
\* creation and is subscribed.
C27_Witness ==
    \E s1, s2, s3 \in Subscribers :
        /\ KeyOf(s1) = KeyOf(s2) /\ KeyOf(s2) = KeyOf(s3)
        /\ subscribers[s1].path = "created" /\ subscribers[s1].st = "rejected"
        /\ subscribers[s2].path = "joined" /\ subscribers[s2].st = "rejected"
        /\ subscribers[s2].entry = subscribers[s1].entry
        /\ subscribers[s3].path = "created" /\ subscribers[s3].st = "subscribed"
        /\ subscribers[s3].entry # subscribers[s1].entry
        /\ subscriptions[KeyOf(s3)] = subscribers[s3].entry

\* The value a filter field stands for: its own, or the default of the field
\* when it is absent or null.
FieldDefaults ==
    [library_id |-> Null, resource_type |-> Null, path_scope |-> Null,
     include_descendants |-> JsBoolean(FALSE), event_types |-> JsArray(<<>>)]

SameUpToDefaults(f, g) ==
    \A field \in DOMAIN FieldDefaults :
        LET valueOf(x) == IF x[field] \in {None, Some(Null)}
                          THEN FieldDefaults[field] ELSE x[field].v
        IN valueOf(f) = valueOf(g)

C29_UnsubscribeAtMostOnce ==
    /\ [](\A e \in Creations : entries[e].unsubCalls <= 1)
    /\ [][\A td \in teardowns :
              (Teardown(td) /\ subscriptions[td.key] # td.e) =>
                  /\ subscriptions' = subscriptions
                  /\ \A e \in Creations : entries'[e].unsubCalls = entries[e].unsubCalls]_vars

\* destroy() unsubscribed an entry whose teardown was pending, and the
\* teardown callback then ran and found the entry gone.
C29_Witness ==
    \E e \in Creations :
        /\ entries[e].lateTeardowns = 1
        /\ entries[e].unsubCalls = 1
        /\ entries[e].cleaned /\ ~entries[e].active
        /\ teardowns = {}

\* C30 as claimed: no two physical subscriptions of one signature are
\* registered at the same time, and an event calls a callback at most once
\* for each signature the callback was subscribed with.
C30_OneLiveSubscriptionPerSignature ==
    /\ \A e1, e2 \in Creations :
          (e1 # e2 /\ entries[e1].key = entries[e2].key) =>
              ~(entries[e1].active /\ entries[e2].active)
    /\ lastEvent # NoValue =>
          \A cb \in Callbacks :
              lastEvent.called[cb] <=
                  Cardinality({KeyOf(s) : s \in {x \in Subscribers :
                                                   subscribers[x].callback = cb}})

\* An event called twice a callback that was subscribed with one signature.
C30_Witness ==
    /\ lastEvent # NoValue
    /\ \E cb \in Callbacks :
          /\ lastEvent.called[cb] = 2
          /\ Cardinality({KeyOf(s) : s \in {x \in Subscribers :
                                           subscribers[x].callback = cb}}) = 1

\* C31 as claimed: a cleanup closure invoked when the table holds, under its
\* signature, another entry than the one its listener was registered on
\* leaves the reference count, the listener set and the retired flag of
\* that entry as they are.
C31_CleanupTouchesOwnEntryOnly ==
    [][\A s \in Subscribers :
          LET e == subscriptions[KeyOf(s)]
          IN (Cleanup(s) /\ e # NoEntry /\ e # subscribers[s].entry) =>
                /\ entries'[e].refCount = entries[e].refCount
                /\ entries'[e].listeners = entries[e].listeners
                /\ entries'[e].cleaned = entries[e].cleaned]_vars

\* A caller that never invoked its cleanup closure is attached to an entry
\* that was retired by the closure of a caller registered on an earlier
\* entry of the signature.
C31_Witness ==
    \E s, r \in Subscribers :
        LET e == subscribers[s].entry
        IN /\ s # r /\ KeyOf(s) = KeyOf(r)
           /\ subscribers[s].st = "subscribed" /\ ~subscribers[s].hasRun
           /\ subscribers[r].st = "subscribed" /\ subscribers[r].hasRun
           /\ subscribers[r].entry < e
           /\ entries[subscribers[r].entry].unsubCalls = 1
           /\ entries[e].cleaned /\ entries[e].refCount = 0
           /\ entries[e].listeners = {subscribers[s].callback}
           /\ \A x \in Subscribers \ {s} : subscribers[x].entry # e

\* C32 as claimed: a physical subscription whose creation was in flight when
\* destroy() ran is never stored in the table.
C32_NoLeakAcrossDestroy ==
    \A k \in DOMAIN subscriptions :
        subscriptions[k] # NoEntry => ~entries[subscriptions[k]].inFlightAtDestroy

\* After destroy() every continuation has run, no subscribe() was called
\* since, and the table holds an entry whose native listener is registered.
C32_Witness ==
    /\ microtasks = <<>>
    /\ \A e \in Creations : entries[e].inFlightAtDestroy
    /\ \E k \in DOMAIN subscriptions :
          /\ subscriptions[k] # NoEntry
          /\ entries[subscriptions[k]].active
          /\ entries[subscriptions[k]].refCount = 1

\* C33 as claimed: while one event is dispatched to the listeners of an
\* entry, the listener set of the entry is not modified, also when a callback
\* invokes a cleanup closure or subscribe() with the same signature.
C33_ListenersStableDuringDispatch ==
    lastEvent # NoValue => ~lastEvent.modified

\* A callback deleted a listener that had not been called yet, which was then
\* skipped, or added one, which was then called in the same enumeration.
C33_Witness ==
    /\ lastEvent # NoValue
    /\ lastEvent.modified
    /\ \E d \in DOMAIN lastEvent.dispatches :
          LET heard == lastEvent.dispatches[d].heard
          IN \/ /\ subscribers[1].reacts = Reaction("cleanup", 2)
                /\ heard = <<"onEventA">>
                /\ subscribers[3].st = "idle"
             \/ /\ subscribers[1].reacts = Reaction("subscribe", 3)
                /\ heard = <<"onEventA", "onEventC">>
                /\ subscribers[2].st = "idle"

\* The place of x in a sequence that holds it
Position(seq, x) == CHOOSE i \in 1..Len(seq) : seq[i] = x

\* C34 as claimed: for each dispatched event the listeners of one entry are
\* invoked in the order in which they were registered on that entry: of two
\* registered callers with different callbacks that are both called, the one
\* attached first is called first.
C34_InvokedInRegistrationOrder ==
    lastEvent # NoValue =>
        \A d \in DOMAIN lastEvent.dispatches :
            LET heard == lastEvent.dispatches[d].heard
                registered == entries[lastEvent.dispatches[d].entry].registered
            IN \A i, j \in DOMAIN registered :
                  LET first == subscribers[registered[i]].callback
                      second == subscribers[registered[j]].callback
                  IN (/\ i < j
                      /\ {registered[i], registered[j]} \subseteq lastEvent.holders
                      /\ first # second
                      /\ \E x, y \in DOMAIN heard : heard[x] = first /\ heard[y] = second)
                     => Position(heard, first) < Position(heard, second)

\* The second caller registered before the third and neither has cleaned up;
\* the callback of the third is called before that of the second.
C34_Witness ==
    /\ lastEvent # NoValue
    /\ {2, 3} \subseteq lastEvent.holders
    /\ \E d \in DOMAIN lastEvent.dispatches :
          /\ lastEvent.dispatches[d].heard = <<"onEventB", "onEventA">>
          /\ \E i, j \in DOMAIN entries[lastEvent.dispatches[d].entry].registered :
                /\ i < j
                /\ entries[lastEvent.dispatches[d].entry].registered[i] = 2
                /\ entries[lastEvent.dispatches[d].entry].registered[j] = 3

\* The requests of flight f
FlightIds(f) == {f.reqs[k].id : k \in 1..Len(f.reqs)}

\* The envelopes of a response, and the requests it holds an envelope for
EnvelopesOf(result) == IF isArray(result) THEN result.array ELSE <<result>>
Answered(result) == {EnvelopesOf(result)[i].id : i \in 1..Len(EnvelopesOf(result))}

\* A pending request that was sent in a bridge call whose flush handler has ended
LeftOut(id) ==
    /\ id \in pendingRequests
    /\ wire[id].sends > 0
    /\ \A f \in flights : id \notin FlightIds(f)

\* C35: when a successful bridge response holds no envelope for a request of
\* the batch that is pending, the flush neither resolves nor rejects that
\* request, and settles each pending request it holds an envelope for by the
\* first such envelope; the request left out stays in the table, unsettled and
\* with its timer armed, and leaves the table only when that timer fires.
C35_ShortResponseLeavesEntry ==
    /\ [][\A f \in flights, rnd \in Draws(MainRandoms) :
            \A result \in Results(f, MainErrorTypes) :
               BridgeReturn(f, result, rnd) =>
                  \A id \in FlightIds(f) \cap pendingRequests :
                     IF id \notin Answered(result)
                     THEN /\ id \in pendingRequests'
                          /\ id \in timers'
                          /\ promises'[id] = promises[id]
                     ELSE LET all == EnvelopesOf(result)
                              first == all[CHOOSE i \in 1..Len(all) :
                                           /\ all[i].id = id
                                           /\ \A j \in 1..(i - 1) : all[j].id # id]
                          IN /\ id \notin pendingRequests'
                             /\ id \notin timers'
                             /\ promises'[id].settles = 1
                             /\ promises'[id].out =
                                   IF first.error = NoError THEN "resolved" ELSE "rejected"]_vars
    /\ [](\A id \in Ids : LeftOut(id) => id \in timers /\ promises[id].out = "pending")
    /\ [][\A id \in Ids :
            (LeftOut(id) /\ id \notin pendingRequests') =>
                \E rnd \in Draws(MainRandoms) : TimerFire(id, rnd)]_vars

\* Two requests went out in one bridge call; the response answered one of
\* them only, which is resolved, and the other is still pending, or was
\* rejected later by its own timer.
C35_Witness ==
    \E id, other \in Ids :
        /\ id # other
        /\ wire[id].call = wire[other].call
        /\ wire[id].call # 0
        /\ promises[other].out = "resolved"
        /\ wire[other].rpos = 1
        /\ wire[id].rpos = 0
        /\ \A f \in flights : id \notin FlightIds(f)
        /\ promises[id].timedOut
        /\ promises[id].val.errorType = "TIMEOUT"

\* The number of requestInternal calls made so far
RECURSIVE AttemptsOf(_)
AttemptsOf(cs) ==
    IF cs = {} THEN 0
    ELSE LET c == CHOOSE x \in cs : TRUE
         IN calls[c].attempts + AttemptsOf(cs \ {c})

\* C36: request identifiers are strictly increasing in enqueue order and
\* never reused: every attempt, retries and health probes included, has an
\* identifier of its own, larger than all issued before, so that the queue is
\* strictly increasing and the current attempts of two calls differ.
C36_IdsNeverReused ==
    /\ [](/\ Cardinality(Ids) = AttemptsOf(Callers)
          /\ requestCounter = AttemptsOf(Callers)
          /\ \A id \in Ids : id <= requestCounter
          /\ pendingRequests \subseteq Ids
          /\ \A i, j \in 1..Len(batch) : i < j => batch[i].id < batch[j].id
          /\ \A c, d \in Callers :
                (c # d /\ calls[c].cur # NoId) => calls[c].cur # calls[d].cur)
    /\ [][\A c \in Callers :
            calls'[c].attempts > calls[c].attempts =>
                /\ calls'[c].attempts = calls[c].attempts + 1
                /\ calls'[c].cur \notin Ids
                /\ \A id \in Ids : id < calls'[c].cur
                /\ calls'[c].cur \in pendingRequests'
                /\ batch'[Len(batch')].id = calls'[c].cur
                /\ promises'[calls'[c].cur].c = c]_vars

\* A call is at its second attempt and a health probe has been made: three
\* identifiers are issued and two of them are pending together.
C36_Witness ==
    /\ requestCounter = 3
    /\ \E c, d \in Callers :
          /\ ~calls[c].probe /\ calls[c].attempts = 2
          /\ calls[d].probe /\ calls[d].attempts = 1
          /\ {calls[c].cur, calls[d].cur} \subseteq pendingRequests
          /\ calls[c].cur # calls[d].cur

\* C38 as claimed: each request envelope is handed to the bridge in at most
\* one call, and only while its pending entry exists: the flush callback
\* sends no attempt that is already settled, nor one that was sent before.
C38_SentOnceWhilePending ==
    /\ [](\A id \in Ids : wire[id].sends <= 1)
    /\ [][Flush => \A i \in 1..Len(batch) :
                      /\ batch[i].id \in pendingRequests
                      /\ wire[batch[i].id].sends = 0]_vars

\* An attempt enqueued while a flush handler was awaiting the bridge, with no
\* flush scheduled for it, was rejected by its own timer; its envelope is
\* still in the queue and the flush callback scheduled by a later request is
\* about to send it.
C38_Witness ==
    /\ flushPending
    /\ \E i \in 1..Len(batch) :
          LET id == batch[i].id
          IN /\ wire[id].flush = 0
             /\ wire[id].sends = 0
             /\ id \notin pendingRequests
             /\ promises[id].timedOut
             /\ promises[id].out = "rejected"

\* C39: a flush whose snapshot is empty makes no bridge call; a snapshot of
\* one request is sent as that envelope, unwrapped, and a snapshot of two or
\* more as an array; an array response is demultiplexed element by element
\* and any other response as one envelope: the pending requests it names
\* leave the table, each settled by its first envelope.
C39_BatchShapes ==
    /\ [][Flush =>
            IF batch = <<>>
            THEN sendCount' = sendCount /\ flights' = flights
            ELSE /\ sendCount' = sendCount + 1
                 /\ \E f \in flights' :
                       /\ f \notin flights
                       /\ flights' = flights \cup {f}
                       /\ f.reqs = batch
                       /\ Len(batch) = 1 => ~isArray(f.query) /\ f.query = batch[1]
                       /\ Len(batch) >= 2 => isArray(f.query) /\ f.query.array = batch]_vars
    /\ [][\A f \in flights, rnd \in Draws(MainRandoms) :
            \A result \in Results(f, LifeErrorTypes) :
               BridgeReturn(f, result, rnd) =>
                  LET named == IF isArray(result)
                               THEN {result.array[i].id : i \in 1..Len(result.array)}
                               ELSE {result.id}
                      firstFor(id) ==
                          IF isArray(result)
                          THEN result.array[CHOOSE i \in 1..Len(result.array) :
                                   /\ result.array[i].id = id
                                   /\ \A j \in 1..(i - 1) : result.array[j].id # id]
                          ELSE result
                  IN /\ pendingRequests' = pendingRequests \ named
                     /\ \A id \in pendingRequests \cap named :
                           promises'[id].out =
                              IF firstFor(id).error = NoError THEN "resolved" ELSE "rejected"]_vars

\* A request went out alone and was resolved; two requests are out together
\* in one array; destroy() has not been called.
C39_Witness ==
    /\ ~destroyed
    /\ \E f \in flights :
          /\ Len(f.reqs) = 2
          /\ f.query = JsArray(f.reqs)
          /\ \E id \in Ids :
                /\ wire[id].sends = 1
                /\ wire[id].call # f.call
                /\ \A other \in Ids \ {id} : wire[other].call # wire[id].call
                /\ promises[id].out = "resolved"

\* A flush callback found the queue empty: destroy() emptied it while the
\* callback was scheduled, and no bridge call was made.
C39_EmptyFlush ==
    destroyed /\ ~flushPending /\ ~batchQueued /\ sendCount = 0 /\ requestCounter > 0

\* The method names of TimeoutMethods that start with a long-running prefix
LongRunningNames ==
    {"action:locations.add", "action:locations.rescan", "action:libraries.create",
     "action:jobs.run", "action:jobs.run.indexer"}

\* C40: the timeout of an attempt is the timeout option when given, otherwise
\* 120000 ms for a method name that starts with a long-running prefix and
\* 30000 ms for any other, whatever batch the request is sent in: the TIMEOUT
\* error of an attempt carries that value.
C40_EffectiveTimeout ==
    \A id \in Ids :
        promises[id].timedOut =>
            LET call == calls[promises[id].c]
            IN promises[id].val.timeout =
                  IF call.opts.timeout # NoTimeout THEN call.opts.timeout
                  ELSE IF call.method \in LongRunningNames THEN 120000
                  ELSE 30000

\* Two requests went out in one bridge call and both timed out: one whose
\* name is longer than a long-running prefix after 120000 ms, the other
\* after 30000 ms.
C40_Witness ==
    \E id, other \in Ids :
        /\ wire[id].call = wire[other].call
        /\ wire[id].call # 0
        /\ promises[id].timedOut
        /\ promises[other].timedOut
        /\ calls[promises[id].c].method = "action:jobs.run.indexer"
        /\ promises[id].val.timeout = 120000
        /\ promises[other].val.timeout = 30000

\* C37: absent destroy(), and with armed timers firing, every call of
\* request() eventually resolves or rejects, whatever the bridge does and
\* whenever the request was enqueued relative to a flush in flight.
C37_RequestEventuallySettles ==
    \A c \in {1, 2} :
        (calls[c].st # "idle") ~> (calls[c].st \in {"resolved", "rejected"})

\* A request enqueued while a flush handler was awaiting the bridge, for
\* which no flush was scheduled and which was never sent, was rejected by its
\* own timer, and its call has returned.
C37_Witness ==
    \E id \in Ids :
        /\ wire[id].flush = 0
        /\ wire[id].sends = 0
        /\ promises[id].timedOut
        /\ calls[promises[id].c].st = "rejected"
        /\ calls[promises[id].c].cur = id

====
